---- MODULE Spec2Model ----
(***************************************************************************)
(* libtrihlav: the application object (clock, terminate flag, mutex), the  *)
(* epoll reactor, the timerfd timers and the signal handlers.              *)
(*                                                                         *)
(* The model follows the newest revision of each file:                     *)
(*   trihlav.c   : src/unnamed/part_000                                    *)
(*   trh_timer.c : src/include/trh_std.h lines 98-263                      *)
(*   trihlav.h / trh_timer.h : src/unnamed/part_001                        *)
(* The kernel objects the code drives (fd table, epoll interest list,      *)
(* timerfd state) are modelled as far as the code observes them.           *)
(***************************************************************************)
EXTENDS Integers, Sequences, FiniteSets, TLC

(*************************** return codes ***********************************)
TRH_OK == 1
TRH_WAITING == 2
TRH_END == 3
TRH_FAILED == 0
TRH_ARG_INVALID == 0 - 1
TRH_OUT_OF_MEM == 0 - 2
TRH_SIGNAL_FAILED == 0 - 3
TRH_EPOLL_FAILED == 0 - 32
TRH_EPOLL_ERROR == 0 - 33
TRH_TIMER_FAILED == 0 - 34
\* a function that falls off its end: the value the caller would read is indeterminate
INDETERMINATE == 0 - 1000
\* void function
VOID == 0 - 1001

EPOLL_EVENTS == 16

(*************************** bounds *****************************************)
\* highest file descriptor number of the process
MaxFd == 21
\* the host owns at most this many sources (more than EPOLL_EVENTS)
MaxSources == 17
\* epoll_wait reports a batch of up to this many events in every order, a
\* longer one in ascending descriptor order only
MaxPerm == 3
\* counters of callback invocations saturate here
MaxCount == 2

(*************************** universes **************************************)
FD == 0 .. MaxFd
NoFd == 0 - 1
\* heap addresses of TTrhEvent objects, and the null pointer
TimerPtr == "timer"
\* the TTrhEvent objects owned by the host
HostPtrs == <<"data", "src02", "src03", "src04", "src05", "src06", "src07", "src08", "src09", "src10", "src11", "src12", "src13", "src14", "src15", "src16", "src17", "src18">>
DataPtr == HostPtrs[1]
Ptr == {TimerPtr} \cup {HostPtrs[i] : i \in 1 .. MaxSources}
NULL == "NULL"
EpollFlags == {"IN", "ERR", "HUP"}
\* what timerfd_settime is asked for: disarm (0,0), a valid value, an invalid one
SpecKind == {"zero", "pos", "invalid"}
\* what the host's on_expire callback does with the handle it is given;
\* "set_invalid" writes a value timerfd_settime rejects to ext.timer->nsec
ExpireBehaviour == {"null", "return", "release_self", "stop_self", "set_invalid"}
\* the loop-error handler: null, returns TRH_OK, returns something else
LoopHandler == {"null", "ok", "fail"}
\* outcomes of a use of freed memory
\* what the host's on_ready callback does
ReadyBehaviour == {"return", "release_timer", "unregister_timer", "stop_timer"}

UbOutcome == {"crash", "garbage"}

VARIABLES
  gsApplication,  \* the static TApplication
  phase,          \* "pre" | "run" | "initfailed" | "released" | "crashed"
  fdt,            \* kernel fd table: fd -> "closed" | "file" | "epoll" | "timerfd"
  interest,       \* epoll interest list: fd -> registered data.ptr (NULL: not registered)
  tfd,            \* timerfd state: fd -> [armed, ticks]
  cond,           \* readiness of plain fds: fd -> subset of EpollFlags
  ev,             \* heap: Ptr -> TTrhEvent (with its TTrhTimerProperties)
  now,            \* CLOCK_REALTIME
  gh,             \* history of callback invocations (ghost)
  last,           \* the last operation, what it returned and called (ghost); fresh: the
                  \* environment has not acted since it returned
  sigdisp,        \* signal dispositions: signal -> "default" | "ignore" | "exit" | "error" | "usr"
  th              \* the threads: operation in progress, position, signal handler frame

vars == <<gsApplication, phase, fdt, interest, tfd, cond, ev, now, gh, last, sigdisp, th>>

(*************************** world record ***********************************)
\* The operators below are functions from world to world; an action reads the
\* variables into a world, applies the operation and writes the result back.
\* ub: the outcome of a use of freed memory during the operation; ndebug: the
\* library was compiled with NDEBUG (assert does nothing); nospace: the limit
\* on epoll watches is reached (EPOLL_CTL_ADD fails with ENOSPC).
World == [app |-> gsApplication, phase |-> phase, fdt |-> fdt, interest |-> interest, tfd |-> tfd, cond |-> cond, ev |-> ev, now |-> now, gh |-> gh, sigdisp |-> sigdisp, ret |-> VOID, log |-> <<>>, ub |-> "crash", ndebug |-> FALSE, nospace |-> FALSE]

Commit(w, op) ==
  /\ gsApplication' = w.app
  /\ phase' = w.phase
  /\ fdt' = w.fdt
  /\ interest' = w.interest
  /\ tfd' = w.tfd
  /\ cond' = w.cond
  /\ ev' = w.ev
  /\ now' = w.now
  /\ gh' = w.gh
  /\ sigdisp' = w.sigdisp
  /\ last' = [op |-> op, ret |-> w.ret, log |-> w.log, fresh |-> TRUE]

Ret(w, code) == [w EXCEPT !.ret = code]

Inc(n) == IF n < MaxCount THEN n + 1 ELSE n

\* the log of the operation in progress: callbacks invoked and internal results
Entry(name, p, code, events) == [f |-> name, p |-> p, code |-> code, events |-> events]

Log(w, name, p, code, events) == [w EXCEPT !.log = Append(@, Entry(name, p, code, events))]

Crashed(w) == w.phase = "crashed"

\* a read or write through a pointer to freed memory: the process crashes, or
\* goes on with whatever the memory holds
UseAfterFree(w, what) == [w EXCEPT !.gh.uaf = @ \cup {what}, !.phase = IF w.ub = "crash" THEN "crashed" ELSE @]

Freed(w, p) == p # NULL /\ w.ev[p].alloc = "freed"

\* TRH_ASSERT_ARG with a false condition: the message is logged, then
\* assert aborts the process, or, compiled with NDEBUG, the function returns
\* TRH_ARG_INVALID
TRH_ASSERT_ARG(w) ==
  IF w.ndebug THEN Ret(w, TRH_ARG_INVALID)
  ELSE Ret([w EXCEPT !.phase = "crashed"], INDETERMINATE)

(*************************** kernel *****************************************)
ZeroTfd == [armed |-> FALSE, ticks |-> 0]

LowestFree(w) == IF \E f \in FD : w.fdt[f] = "closed" THEN CHOOSE f \in FD : w.fdt[f] = "closed" /\ \A g \in FD : w.fdt[g] = "closed" => f <= g ELSE NoFd

\* close(2): the descriptor leaves every interest list; closing the epoll
\* descriptor destroys its interest list
k_close(w, fd) ==
  IF fd \notin FD \/ w.fdt[fd] = "closed" THEN w
  ELSE [w EXCEPT !.fdt[fd] = "closed",
                 !.interest = IF w.fdt[fd] = "epoll" THEN [f \in FD |-> NULL] ELSE [@ EXCEPT ![fd] = NULL],
                 !.tfd[fd] = ZeroTfd,
                 !.cond[fd] = {}]

\* timerfd_settime(2): fails on a descriptor that is no timerfd and on an
\* invalid value; otherwise the expiration count is reset, and the timer is
\* armed unless the value is zero
k_settime_ok(w, fd, kind) == fd \in FD /\ w.fdt[fd] = "timerfd" /\ kind # "invalid"

k_settime(w, fd, kind) ==
  IF k_settime_ok(w, fd, kind) THEN [w EXCEPT !.tfd[fd] = [armed |-> kind = "pos", ticks |-> 0]] ELSE w

\* EPOLL_CTL_ADD without EEXIST
k_epoll_add_ok_noexist(w, epfd, fd) ==
  /\ ~w.nospace
  /\ epfd \in FD /\ w.fdt[epfd] = "epoll"
  /\ fd \in FD /\ w.fdt[fd] \in {"file", "timerfd"}

\* epoll_ctl(2), EPOLL_CTL_ADD
k_epoll_add_ok(w, epfd, fd) ==
  /\ ~w.nospace
  /\ epfd \in FD /\ w.fdt[epfd] = "epoll"
  /\ fd \in FD /\ w.fdt[fd] \in {"file", "timerfd"}
  /\ w.interest[fd] = NULL

k_epoll_add(w, epfd, fd, p) == [w EXCEPT !.interest[fd] = p]

\* epoll_ctl(2), EPOLL_CTL_DEL
k_epoll_del(w, epfd, fd) ==
  IF epfd \in FD /\ w.fdt[epfd] = "epoll" /\ fd \in FD /\ w.interest[fd] # NULL
  THEN [w EXCEPT !.interest[fd] = NULL] ELSE w

\* the events the kernel reports for a registered fd (interest mask EPOLLIN;
\* EPOLLERR and EPOLLHUP are always reported)
k_events(w, fd) ==
  IF w.fdt[fd] = "timerfd" THEN (IF w.tfd[fd].ticks > 0 THEN {"IN"} ELSE {})
  ELSE IF w.fdt[fd] = "file" THEN w.cond[fd]
  ELSE {}

k_ready(w) == {fd \in FD : w.interest[fd] # NULL /\ k_events(w, fd) # {}}

(*************************** application object ****************************)
\* the mutex: "zero" (static storage, never initialised), "init", "destroyed";
\* owner is the thread holding it, or NoThread
NoThread == "none"

ZeroApplication == [time_system |-> 0, time_app |-> 0, dt |-> 0, terminate |-> FALSE, epoll_fd |-> 0, mutex |-> [state |-> "zero", owner |-> NoThread], handle_error |-> "null"]

trh_time(w) == w.now

\* update_clock with dt computed after time_system was overwritten
update_clock_stale(app, lTime) ==
  [app EXCEPT !.dt = 0, !.time_system = lTime, !.time_app = app.time_app]

\* update_clock with a dt that is never negative
update_clock_clamped(app, lTime) ==
  LET d == IF lTime < app.time_system THEN 0 ELSE lTime - app.time_system
  IN  [app EXCEPT !.dt = d, !.time_system = lTime, !.time_app = app.time_app + d]

\* the three assignments trh_update makes with the mutex held
update_clock(app, lTime) ==
  [app EXCEPT !.dt = lTime - app.time_system,
              !.time_system = lTime,
              !.time_app = app.time_app + (lTime - app.time_system)]

set_terminate_toggle(app) == [app EXCEPT !.terminate = ~@]

\* the assignment trh_terminate makes with the mutex held
set_terminate(app) == [app EXCEPT !.terminate = TRUE]

pthread_mutex_lock(app, t) == [app EXCEPT !.mutex.owner = t]

pthread_mutex_unlock(app) == [app EXCEPT !.mutex.owner = NoThread]

\* the operations as one thread runs them with nothing in between
trh_terminate(w) == Ret([w EXCEPT !.app = pthread_mutex_unlock(set_terminate(pthread_mutex_lock(w.app, "main")))], VOID)

trh_is_terminating(w) == Ret(w, IF w.app.terminate THEN 1 ELSE 0)

trh_get_app_time(w) == Ret(w, w.app.time_app)

trh_get_dt(w) == Ret(w, w.app.dt)

trh_set_loop_error_handler(w, h) == Ret([w EXCEPT !.app.handle_error = h], VOID)

\* the order in which local_signal_register installs the handlers
SignalOrder == <<"SIGCHLD", "SIGINT", "SIGILL", "SIGABRT", "SIGFPE", "SIGSEGV", "SIGTERM", "SIGHUP", "SIGQUIT">>

SignalHandlerOf(sig) ==
  IF sig = "SIGCHLD" THEN "ignore"
  ELSE IF sig \in {"SIGINT", "SIGTERM", "SIGHUP", "SIGQUIT"} THEN "exit"
  ELSE "error"

UserSignals == {"SIGUSR1", "SIGUSR2"}

Signals == {SignalOrder[i] : i \in 1 .. Len(SignalOrder)} \cup UserSignals

\* failAt: the index in SignalOrder of the signal() call that fails (0: none)
local_signal_register(w, failAt) ==
  LET n == IF failAt = 0 THEN Len(SignalOrder) ELSE failAt - 1
      d == [sg \in Signals |-> IF \E i \in 1 .. n : SignalOrder[i] = sg THEN SignalHandlerOf(sg) ELSE w.sigdisp[sg]]
  IN  Ret([w EXCEPT !.sigdisp = d], IF failAt = 0 THEN TRH_OK ELSE TRH_SIGNAL_FAILED)

\* trh_set_signal_handler that takes any signal
trh_set_signal_handler_anysignal(w, sg, h, sigfail) ==
  IF h = NULL THEN Ret(w, TRH_ARG_INVALID)
  ELSE IF sigfail THEN Ret(w, TRH_SIGNAL_FAILED)
  ELSE Ret([w EXCEPT !.sigdisp[sg] = "usr"], TRH_OK)

\* h: the handler, "usr" or NULL; sigfail: signal() returns SIG_ERR
trh_set_signal_handler(w, sg, h, sigfail) ==
  IF sg \notin UserSignals THEN Ret(w, TRH_ARG_INVALID)
  ELSE IF h = NULL THEN Ret(w, TRH_ARG_INVALID)
  ELSE IF sigfail THEN Ret(w, TRH_SIGNAL_FAILED)
  ELSE Ret([w EXCEPT !.sigdisp[sg] = "usr"], TRH_OK)

\* epfail: epoll_create1 fails
local_epoll_init(w, epfail) ==
  LET fd == IF epfail THEN NoFd ELSE LowestFree(w)
  IN  IF fd = NoFd THEN Ret([w EXCEPT !.app.epoll_fd = NoFd], TRH_EPOLL_FAILED)
      ELSE Ret([w EXCEPT !.app.epoll_fd = fd, !.fdt[fd] = "epoll"], TRH_OK)

\* trh_init without the bzero of gsApplication
trh_init_nobzero(w, failAt, epfail) ==
  LET w0 == [w EXCEPT !.app.time_system = trh_time(w),
                       !.gh.read = trh_time(w), !.gh.prevread = trh_time(w), !.gh.sumdt = 0, !.gh.base = trh_time(w)]
      w1 == local_signal_register(w0, failAt)
  IN  IF w1.ret # TRH_OK THEN Ret([w1 EXCEPT !.phase = "initfailed"], 0)
      ELSE LET w2 == local_epoll_init([w1 EXCEPT !.app.mutex.state = "init"], epfail)
           IN  IF w2.ret # TRH_OK THEN Ret([w2 EXCEPT !.phase = "initfailed"], 0)
               ELSE Ret([w2 EXCEPT !.phase = "run"], 1)

\* returns 1 for the address of gsApplication, 0 for null
trh_init(w, failAt, epfail) ==
  LET w0 == [w EXCEPT !.app = [ZeroApplication EXCEPT !.time_system = trh_time(w)],
                       !.gh.read = trh_time(w), !.gh.prevread = trh_time(w), !.gh.sumdt = 0, !.gh.base = trh_time(w)]
      w1 == local_signal_register(w0, failAt)
  IN  IF w1.ret # TRH_OK THEN Ret([w1 EXCEPT !.phase = "initfailed"], 0)
      ELSE LET w2 == local_epoll_init([w1 EXCEPT !.app.mutex.state = "init"], epfail)
           IN  IF w2.ret # TRH_OK THEN Ret([w2 EXCEPT !.phase = "initfailed"], 0)
               ELSE Ret([w2 EXCEPT !.phase = "run"], 1)

\* local_epoll_release that also closes the descriptors still registered
local_epoll_release_closesources(w) ==
  IF w.app.epoll_fd # NoFd
  THEN [k_close(w, w.app.epoll_fd) EXCEPT !.app.epoll_fd = NoFd,
                                          !.fdt = [f \in FD |-> IF w.interest[f] # NULL THEN "closed" ELSE @[f]]]
  ELSE w

local_epoll_release(w) ==
  IF w.app.epoll_fd # NoFd THEN [k_close(w, w.app.epoll_fd) EXCEPT !.app.epoll_fd = NoFd] ELSE w

trh_release(w) ==
  Ret([local_epoll_release([w EXCEPT !.app.mutex.state = "destroyed"]) EXCEPT !.phase = "released"], VOID)

\* local_signal_handle_exit run by the kernel between two operations
local_signal_handle_exit(w) == trh_terminate(w)

\* local_signal_handle_error: trh_log_end, trh_log, the backtrace on stdout,
\* and the function returns
local_signal_handle_error(w) == [w EXCEPT !.gh.fault = TRUE]

(*************************** reactor: register / unregister *****************)
\* trh_event_register with the wrong code for a null argument
trh_event_register_nullcode(w, p) ==
  IF p = NULL THEN Ret(w, TRH_EPOLL_FAILED)
  ELSE IF k_epoll_add_ok(w, w.app.epoll_fd, w.ev[p].fd)
       THEN Ret(k_epoll_add(w, w.app.epoll_fd, w.ev[p].fd, p), TRH_OK)
       ELSE Ret(w, TRH_EPOLL_FAILED)

trh_event_register(w, p) ==
  IF p = NULL THEN Ret(w, TRH_ARG_INVALID)
  ELSE IF k_epoll_add_ok(w, w.app.epoll_fd, w.ev[p].fd)
       THEN Ret(k_epoll_add(w, w.app.epoll_fd, w.ev[p].fd, p), TRH_OK)
       ELSE Ret(w, TRH_EPOLL_FAILED)

\* trh_event_unregister without the test of epoll_fd
trh_event_unregister_nocheck(w, p) ==
  IF p = NULL THEN Ret(w, VOID)
  ELSE Ret(Log(k_epoll_del(w, w.app.epoll_fd, w.ev[p].fd), "epoll_ctl", p, 0, {"DEL"}), VOID)

\* the epoll_ctl call is logged
trh_event_unregister(w, p) ==
  IF p = NULL THEN Ret(w, VOID)
  ELSE IF w.app.epoll_fd = NoFd THEN Ret(w, VOID)
  ELSE Ret(Log(k_epoll_del(w, w.app.epoll_fd, w.ev[p].fd), "epoll_ctl", p, 0, {"DEL"}), VOID)

(*************************** timers *****************************************)
local_timer_set(w, p, kind) ==
  IF k_settime_ok(w, w.ev[p].fd, kind) THEN Ret(Log(k_settime(w, w.ev[p].fd, kind), "timerfd_settime", p, 0, {kind}), TRH_OK)
  ELSE Ret(Log(w, "timerfd_settime", p, 0 - 1, {kind}), TRH_TIMER_FAILED)

\* the result of local_timer_set is stored in `running`; TRH_OK is returned
\* whatever it was
trh_timer_start(w, p) ==
  IF p = NULL THEN TRH_ASSERT_ARG(w)
  ELSE LET s == local_timer_set(w, p, w.ev[p].kind)
       IN  Ret([s EXCEPT !.ev[p].running = (s.ret = TRH_OK), !.gh.rearmed = @ \/ (s.ret = TRH_OK /\ w.ev[p].kind = "pos")], TRH_OK)

\* trh_timer_stop that leaves `running` as it is
trh_timer_stop_keeprunning(w, p) ==
  Ret(local_timer_set(w, p, "zero"), VOID)

trh_timer_stop(w, p) ==
  Ret(local_timer_set([w EXCEPT !.ev[p].running = FALSE], p, "zero"), VOID)

\* the host's on_released callback (handle_timer_stopped)
\* what a callback can see of the timer it is called with: its memory and
\* properties are allocated, no descriptor is left, the poll set has no entry
\* for it
Seen(w, p) ==
  (IF w.ev[p].alloc = "live" /\ w.ev[p].timer THEN {"valid"} ELSE {})
  \cup (IF w.ev[p].fd = NoFd THEN {"closed"} ELSE {})
  \cup (IF \A f \in FD : w.interest[f] # p THEN {"unregistered"} ELSE {})

on_released(w, p) == Log([w EXCEPT !.gh.nrel = Inc(@)], "on_released", p, 0, Seen(w, p))

\* trh_timer_release that frees the properties before the callback
trh_timer_release_freefirst(w, p) ==
  IF p = NULL THEN Ret(w, VOID)
  ELSE IF Freed(w, p) THEN Ret(UseAfterFree(w, "release"), VOID)
  ELSE LET w1 == trh_event_unregister(w, p)
           w2 == Log([k_close(w1, w1.ev[p].fd) EXCEPT !.ev[p].fd = NoFd], "close", p, 0, {})
           w3 == IF w2.ev[p].timer
                 THEN LET w4 == [w2 EXCEPT !.ev[p].timer = FALSE] IN IF w2.ev[p].on_released THEN on_released(w4, p) ELSE w4
                 ELSE w2
       IN  Ret(Log([w3 EXCEPT !.ev[p].alloc = "freed"], "free", p, 0, {}), VOID)

trh_timer_release(w, p) ==
  IF p = NULL THEN Ret(w, VOID)
  ELSE IF Freed(w, p) THEN Ret(UseAfterFree(w, "release"), VOID)
  ELSE LET w1 == trh_event_unregister(w, p)
           w2 == Log([k_close(w1, w1.ev[p].fd) EXCEPT !.ev[p].fd = NoFd], "close", p, 0, {})
           w3 == IF w2.ev[p].timer
                 THEN [(IF w2.ev[p].on_released THEN on_released(w2, p) ELSE w2) EXCEPT !.ev[p].timer = FALSE]
                 ELSE w2
       IN  Ret(Log([w3 EXCEPT !.ev[p].alloc = "freed"], "free", p, 0, {}), VOID)

\* the host's on_expire callback (handle_timer_event), by what it does with
\* the handle it was called with
on_expire(w, p) ==
  LET w1 == Log([w EXCEPT !.gh.nexp = Inc(@), !.gh.twice = @ \/ ~w.gh.rearmed, !.gh.rearmed = FALSE], "on_expire", p, 0, {})
      b  == w.ev[p].on_expire
  IN  IF b = "release_self" THEN [trh_timer_release(w1, p) EXCEPT !.gh.selfrel = TRUE]
      ELSE IF b = "stop_self" THEN trh_timer_stop(w1, p)
      ELSE IF b = "set_invalid" THEN [w1 EXCEPT !.ev[p].kind = "invalid"]
      ELSE w1

\* local_timer_event without the stop of a one-shot timer
local_timer_event_nostop(w, p) ==
  IF p = NULL \/ ~w.ev[p].timer THEN TRH_ASSERT_ARG(w)
  ELSE LET w1 == IF w.ev[p].on_expire # "null" THEN on_expire(w, p) ELSE w
       IN  IF Crashed(w1) THEN w1
           ELSE IF Freed(w1, p) THEN Ret(UseAfterFree(w1, "dispatch"), INDETERMINATE)
           ELSE IF w1.ev[p].repeat = FALSE THEN Ret(w1, TRH_OK)
           ELSE Ret(trh_timer_start(w1, p), INDETERMINATE)

\* local_timer_event without the renewal of a repeating timer
local_timer_event_norearm(w, p) ==
  IF p = NULL \/ ~w.ev[p].timer THEN TRH_ASSERT_ARG(w)
  ELSE LET w1 == IF w.ev[p].on_expire # "null" THEN on_expire(w, p) ELSE w
       IN  IF Crashed(w1) THEN w1
           ELSE IF Freed(w1, p) THEN Ret(UseAfterFree(w1, "dispatch"), INDETERMINATE)
           ELSE IF w1.ev[p].repeat = FALSE THEN Ret(trh_timer_stop(w1, p), TRH_OK)
           ELSE Ret(w1, INDETERMINATE)

local_timer_event(w, p) ==
  IF p = NULL \/ ~w.ev[p].timer THEN TRH_ASSERT_ARG(w)
  ELSE LET w1 == IF w.ev[p].on_expire # "null" THEN on_expire(w, p) ELSE w
       IN  IF Crashed(w1) THEN w1
           ELSE IF Freed(w1, p)
           THEN \* iEvent->ext.timer->repeat is read from the freed timer
                Ret(UseAfterFree(w1, "dispatch"), INDETERMINATE)
           ELSE IF w1.ev[p].repeat = FALSE THEN Ret(trh_timer_stop(w1, p), TRH_OK)
           ELSE LET w2 == trh_timer_start(w1, p)
                IN  IF w2.ret # TRH_OK THEN Ret(trh_timer_release(w2, p), w2.ret)
                    ELSE Ret(w2, INDETERMINATE)

local_timer_error(w, p) == Ret(w, TRH_TIMER_FAILED)

\* a TTrhEvent as malloc + bzero leaves it, and after trh_timer_init's first
\* assignments (fd = -1, handle_event = local_timer_event, handle_error =
\* local_timer_error)
NewTimerEvent == [alloc |-> "live", fd |-> NoFd, isTimer |-> TRUE, handle_error |-> TRUE, timer |-> FALSE, kind |-> "zero", repeat |-> FALSE, running |-> FALSE, on_expire |-> "null", on_released |-> FALSE, fails |-> FALSE, on_ready |-> "return"]

\* fail: the step the environment makes fail ("none", "malloc_event",
\* "timerfd_create", "malloc_props"; "epoll_ctl" is the world's nospace)
local_timer_init(w, props, p, fail) ==
  LET fd == IF fail = "timerfd_create" THEN NoFd ELSE LowestFree(w)
  IN  IF fd = NoFd THEN Ret(w, TRH_TIMER_FAILED)
      ELSE LET w1 == [w EXCEPT !.fdt[fd] = "timerfd", !.tfd[fd] = ZeroTfd, !.ev[p].fd = fd]
           IN  IF fail = "malloc_props" THEN Ret(w1, TRH_OUT_OF_MEM)
               ELSE trh_timer_start([w1 EXCEPT !.ev[p].timer = TRUE, !.ev[p].kind = props.kind, !.ev[p].repeat = props.repeat, !.ev[p].on_expire = props.on_expire, !.ev[p].on_released = props.on_released], p)

\* props.null and out = FALSE stand for the null arguments; gh.out is the
\* caller's variable that oEvent points to
trh_timer_init(w, props, out, fail) ==
  IF props.null \/ ~out THEN TRH_ASSERT_ARG(w)
  ELSE IF fail = "malloc_event" THEN Ret(w, TRH_OUT_OF_MEM)
  ELSE LET p  == TimerPtr
           w0 == [w EXCEPT !.ev[p] = NewTimerEvent, !.gh.nexp = 0, !.gh.nrel = 0, !.gh.rearmed = FALSE, !.gh.twice = FALSE, !.gh.selfrel = FALSE]
           w1 == local_timer_init(w0, props, p, fail)
       IN  IF w1.ret # TRH_OK THEN Ret(trh_timer_release(w1, p), w1.ret)
           ELSE LET w2 == trh_event_register(w1, p)
                IN  IF w2.ret # TRH_OK THEN Ret(trh_timer_release(w2, p), w2.ret)
                    ELSE Ret([w2 EXCEPT !.gh.out = p], TRH_OK)

(*************************** reactor: poll **********************************)
\* the host's loop-error handler (handle_loop_error)
handle_error(w) ==
  LET code == IF w.app.handle_error = "ok" THEN TRH_OK ELSE TRH_EPOLL_FAILED
  IN  Ret(Log(w, "handle_loop_error", NULL, code, {}), code)

local_epoll_error(w, errno) ==
  IF errno = "EINTR" /\ w.app.handle_error # "null"
  THEN LET w1 == handle_error(w)
       IN  IF w1.ret = TRH_OK THEN Ret(w1, TRH_WAITING) ELSE Ret(w1, TRH_EPOLL_FAILED)
  ELSE Ret(w, TRH_EPOLL_FAILED)

\* handle_error / handle_event of a source: a timer's are local_timer_error
\* and local_timer_event, a caller-owned source's are the host's
\* what a callback of the host returns
HostCode(w, p) == IF w.ev[p].fails THEN TRH_FAILED ELSE TRH_OK

source_error(w, p) ==
  IF w.ev[p].isTimer THEN local_timer_error(Log(w, "local_timer_error", p, 0, {}), p)
  ELSE Ret(Log(w, "on_error", p, HostCode(w, p), {}), HostCode(w, p))

\* the host's on_ready callback (handle_event of a caller-owned source), by
\* what it does with the timer the host has created
on_ready(w, p) ==
  LET w1 == Log(w, "on_ready", p, HostCode(w, p), {})
      t  == IF w.ev[TimerPtr].alloc = "live" THEN TimerPtr ELSE NULL
      b  == w.ev[p].on_ready
  IN  Ret(IF b = "release_timer" THEN trh_timer_release(w1, t)
          ELSE IF b = "unregister_timer" THEN trh_event_unregister(w1, t)
          ELSE IF b = "stop_timer" /\ t # NULL THEN trh_timer_stop(w1, t)
          ELSE w1, HostCode(w, p))

source_event(w, p) ==
  IF w.ev[p].isTimer THEN LET r == local_timer_event(w, p) IN Log(r, "local_timer_event", p, r.ret, {})
  ELSE on_ready(w, p)

\* e: one struct epoll_event, [ptr, events]
local_epoll_event(w, e) ==
  LET p == e.ptr
  IN  IF Freed(w, p) THEN Ret(UseAfterFree(w, "epoll_event"), INDETERMINATE)
      ELSE IF "ERR" \in e.events
      THEN Ret(IF w.ev[p].handle_error THEN source_error(w, p) ELSE w, TRH_EPOLL_ERROR)
      ELSE IF "IN" \in e.events
      THEN Ret(source_event(w, p), TRH_OK)
      ELSE Ret(w, TRH_OK)

RECURSIVE Dispatch_stop(_, _)
\* a dispatch loop that ends at the first event whose result is not TRH_OK
Dispatch_stop(w, batch) ==
  IF batch = <<>> \/ Crashed(w) THEN w
  ELSE LET e  == Head(batch)
           w0 == Log(w, "event", e.ptr, 0, e.events)
           w1 == local_epoll_event(w0, e)
           w2 == Log(w1, "local_epoll_event", e.ptr, w1.ret, e.events)
       IN  IF w1.ret # TRH_OK THEN w2 ELSE Dispatch_stop(w2, Tail(batch))

RECURSIVE Dispatch(_, _)
\* the for loop of trh_update; each event's result is dropped by the loop and
\* kept in the log only
Dispatch(w, batch) ==
  IF batch = <<>> \/ Crashed(w) THEN w
  ELSE LET e  == Head(batch)
           w0 == Log(w, "event", e.ptr, 0, e.events)
           w1 == local_epoll_event(w0, e)
       IN  Dispatch(Log(w1, "local_epoll_event", e.ptr, w1.ret, e.events), Tail(batch))

\* wait: what epoll_wait returned, [n, errno, sig, batch]; sig is the
\* disposition of the signal whose handler interrupted the wait (errno EINTR)
trh_update(w, wait) ==
  LET lTime == trh_time(w)
      app == pthread_mutex_unlock(update_clock(pthread_mutex_lock(w.app, "main"), lTime))
      wl == Log([w EXCEPT !.app = app, !.gh.read = lTime, !.gh.prevread = w.gh.read, !.gh.sumdt = @ + app.dt], "epoll_wait", NULL, wait.n, {wait.errno})
      w0 == [wl EXCEPT !.log = @ \o [i \in 1 .. Len(wait.batch) |-> Entry("reported", wait.batch[i].ptr, i, wait.batch[i].events)]]
      w1 == IF wait.errno = "EINTR" /\ wait.sig = "exit" THEN local_signal_handle_exit(w0) ELSE w0
      w2 == IF wait.n = 0 - 1
            THEN LET r == local_epoll_error(w1, wait.errno)
                 IN  Log(r, "local_epoll_error", NULL, r.ret, {})
            ELSE w1
      w3 == IF wait.n > 0 THEN Dispatch(w2, wait.batch) ELSE w2
  IN  Ret(w3, TRH_OK)

(*************************** epoll_wait *************************************)
Min(a, b) == IF a < b THEN a ELSE b

RECURSIVE Ascending(_)
\* the elements of a set of descriptors in ascending order
Ascending(S) ==
  IF S = {} THEN <<>>
  ELSE LET m == CHOOSE x \in S : \A y \in S : x <= y
       IN  <<m>> \o Ascending(S \ {m})

RECURSIVE KSubsets(_, _)
\* the subsets of S with k elements
KSubsets(S, k) ==
  IF k = 0 THEN {{}}
  ELSE IF S = {} THEN {}
  ELSE LET x == CHOOSE y \in S : TRUE
       IN  KSubsets(S \ {x}, k) \cup {T \cup {x} : T \in KSubsets(S \ {x}, k - 1)}

\* epoll_wait without the maxevents limit
Batches_nolimit(w) ==
  LET R == k_ready(w)
      s == Ascending(R)
  IN  {[i \in 1 .. Len(s) |-> [ptr |-> w.interest[s[i]], events |-> k_events(w, s[i])]]}

\* the batches epoll_wait may return: the ready descriptors, at most
\* EPOLL_EVENTS of them, in any order
Batches(w) ==
  LET R == k_ready(w)
      n == Min(Cardinality(R), EPOLL_EVENTS)
      chosen == {R \ L : L \in KSubsets(R, Cardinality(R) - n)}
      orders == IF n <= MaxPerm
                THEN {s \in [1 .. n -> R] : \A i, j \in 1 .. n : i # j => s[i] # s[j]}
                ELSE {Ascending(S) : S \in chosen}
  IN  {[i \in 1 .. n |-> [ptr |-> w.interest[s[i]], events |-> k_events(w, s[i])]] : s \in orders}

\* what epoll_wait( epoll_fd, lEvents, EPOLL_EVENTS, 10 ) may return
Waits(w) ==
  IF w.app.epoll_fd \notin FD \/ w.fdt[w.app.epoll_fd] # "epoll"
  THEN {[n |-> 0 - 1, errno |-> "EBADF", sig |-> "none", batch |-> <<>>]}
  ELSE {[n |-> Len(b), errno |-> "none", sig |-> "none", batch |-> b] : b \in Batches(w)}
       \cup {[n |-> 0 - 1, errno |-> "EINTR", sig |-> d, batch |-> <<>>] : d \in {w.sigdisp[x] : x \in Signals} \cap {"exit", "usr"}}

(*************************** path cache (trh_std.c) *************************)
\* enum PathType
TRH_HOME == 0
TRH_TEMP == 1
TRH_RUNTIME == 2
TRH_CONFIG == 3
TRH_DATA == 4
TRH_ASSETS == 5

\* char *gsPaths[TRH_ASSETS] in static storage: slot[i] is gsPaths[i], NULL
\* or the block malloc returned, named after the path it holds; beyond is the
\* pointer-sized memory that follows the array (NULL when it is zero, "other"
\* when another object's data is there); heap: the blocks allocated and not
\* freed
PathBlocks == [i \in TRH_HOME .. TRH_ASSETS |-> <<"home", "temp", "runtime", "config", "data", "assets">>[i + 1]]

ZeroPaths == [slot |-> [i \in 0 .. TRH_ASSETS - 1 |-> NULL], beyond |-> NULL, heap |-> {}]

\* gsPaths[i] is read or written; an index outside the array reaches the
\* memory behind it
PathAt(w, i) == IF i \in DOMAIN w.gh.gsPaths.slot THEN w.gh.gsPaths.slot[i] ELSE w.gh.gsPaths.beyond

\* gsPaths[i] = malloc( .. ), with the access logged
PathStore(w, i) ==
  LET w1 == IF i \in DOMAIN w.gh.gsPaths.slot
            THEN [w EXCEPT !.gh.gsPaths.slot[i] = PathBlocks[i]]
            ELSE [w EXCEPT !.gh.gsPaths.beyond = PathBlocks[i]]
  IN  Log([w1 EXCEPT !.gh.gsPaths.heap = @ \cup {PathBlocks[i]}], "malloc", NULL, i, {})

trh_std_init(w) == Ret([w EXCEPT !.gh.gsPaths.slot = ZeroPaths.slot], TRH_OK)

\* env.home: HOME is set and not empty; the empty string literal is "empty"
local_get_path_home(w, env) ==
  LET w1 == Log(w, "gsPaths", NULL, TRH_HOME, {})
  IN  IF PathAt(w, TRH_HOME) # NULL THEN Ret(w1, PathAt(w, TRH_HOME))
      ELSE IF ~env.home THEN Ret(w1, "empty")
      ELSE Ret(PathStore(w1, TRH_HOME), PathBlocks[TRH_HOME])

\* i: the index of the slot oPath points to; env.var: the XDG_* variable is
\* set; absolute: iDefaultPath starts with '/'
local_get_path_xdg(w, i, env, absolute) ==
  LET w1 == Log(w, "gsPaths", NULL, i, {})
  IN  IF PathAt(w, i) # NULL THEN Ret(w1, PathAt(w, i))
      ELSE IF env.var \/ absolute THEN Ret(PathStore(w1, i), PathBlocks[i])
      ELSE Ret(PathStore(local_get_path_home(w1, env), i), PathBlocks[i])

local_get_path_assets(w) ==
  LET w1 == Log(w, "gsPaths", NULL, TRH_ASSETS, {})
  IN  IF PathAt(w, TRH_ASSETS) # NULL THEN Ret(w1, PathAt(w, TRH_ASSETS))
      ELSE Ret(PathStore(w1, TRH_ASSETS), PathBlocks[TRH_ASSETS])

\* out: oPath is not null; the result is the value stored in *oPath
trh_get_path(w, iType, env, out) ==
  IF ~out THEN Ret(w, NULL)
  ELSE IF iType = TRH_HOME THEN local_get_path_home(w, env)
  ELSE IF iType = TRH_RUNTIME THEN local_get_path_xdg(w, TRH_RUNTIME, env, TRUE)
  ELSE IF iType \in {TRH_CONFIG, TRH_DATA} THEN local_get_path_xdg(w, iType, env, FALSE)
  ELSE IF iType = TRH_ASSETS THEN local_get_path_assets(w)
  ELSE local_get_path_xdg(w, TRH_TEMP, env, FALSE)

\* the loop runs over the indices below TRH_ASSETS; FREE_PTR frees and
\* stores null
trh_std_release(w) ==
  Ret([w EXCEPT !.gh.gsPaths.heap = @ \ {w.gh.gsPaths.slot[i] : i \in DOMAIN w.gh.gsPaths.slot},
                !.gh.gsPaths.slot = ZeroPaths.slot], VOID)

(*************************** initial state **********************************)
NoEvent == [alloc |-> "none", fd |-> NoFd, isTimer |-> FALSE, handle_error |-> FALSE, timer |-> FALSE, kind |-> "zero", repeat |-> FALSE, running |-> FALSE, on_expire |-> "null", on_released |-> FALSE, fails |-> FALSE, on_ready |-> "return"]

\* standard input, output and error
StdFds == {0, 1, 2}

\* the descriptor of the host's own source (a pipe or socket opened by the
\* host before trh_init): the lowest one free after the standard streams
HostFd == Cardinality(StdFds)

HostEvent(herr) == [NoEvent EXCEPT !.alloc = "live", !.fd = HostFd, !.handle_error = herr]

\* nexp: on_expire calls since the host last started the timer; nrel:
\* on_released calls; rearmed: the timer was armed since its last on_expire;
\* twice: on_expire was called without such an arming; selfrel: on_expire
\* released its own timer; out: the caller's TTrhEvent* that trh_timer_init
\* was given the address of; uaf: the accesses to freed memory; hist: what the
\* host last did with its own source ("never", "registered", "unregistered");
\* read: the clock value read by the latest trh_init or trh_update; prevread:
\* the one read before that; fault: local_signal_handle_error has run and
\* returned; sumdt: the sum of the dt values the trh_update
\* calls since trh_init have stored; base: the clock value trh_init read;
\* gsPaths: the path cache of trh_std.c, which no other part of the state
\* depends on
ZeroGhost == [gsPaths |-> ZeroPaths, base |-> 0, nexp |-> 0, nrel |-> 0, nsig |-> 0, fault |-> FALSE, out |-> NULL, read |-> 0, prevread |-> 0, sumdt |-> 0, uaf |-> {}, rearmed |-> FALSE, twice |-> FALSE, selfrel |-> FALSE, hist |-> "never"]

\* op: the operation the thread is in; pc: "idle", "lock" (about to call
\* pthread_mutex_lock), "crit" (holds the mutex), "unlock", "wait" (in
\* epoll_wait), "stopped" (the host loop has ended); val: the bool lResult;
\* lTime, lResult: the double locals of trh_update and of the accessors; h: the
\* position of local_signal_handle_exit running on the thread's stack ("none",
\* "lock", "crit", "unlock"), or of the accessor cb that a callback of the
\* dispatch has called; intr: a handler ran during the epoll_wait
Threads == {"main", "aux"}

IdleThread == [op |-> "none", pc |-> "idle", val |-> FALSE, h |-> "none", intr |-> FALSE, cb |-> "none", lTime |-> 0, lResult |-> 0]

IdleThreads == [t \in Threads |-> IdleThread]

\* process start: gsApplication is zero-filled static storage, descriptors
\* 0..2 are the standard streams, the host has opened its own descriptor
StartWorld(herr) ==
  [app |-> ZeroApplication, phase |-> "pre",
   fdt |-> [f \in FD |-> IF f <= HostFd THEN "file" ELSE "closed"],
   interest |-> [f \in FD |-> NULL], tfd |-> [f \in FD |-> ZeroTfd], cond |-> [f \in FD |-> {}],
   ev |-> [p \in Ptr |-> IF p = DataPtr THEN HostEvent(herr) ELSE NoEvent],
   now |-> 0, gh |-> ZeroGhost, sigdisp |-> [sg \in Signals |-> "default"],
   ret |-> VOID, log |-> <<>>, ub |-> "crash", ndebug |-> FALSE, nospace |-> FALSE]

IsWorld(w) ==
  /\ gsApplication = w.app
  /\ phase = w.phase
  /\ fdt = w.fdt
  /\ interest = w.interest
  /\ tfd = w.tfd
  /\ cond = w.cond
  /\ ev = w.ev
  /\ now = w.now
  /\ gh = w.gh
  /\ sigdisp = w.sigdisp

Init ==
  /\ \E herr \in BOOLEAN : IsWorld(StartWorld(herr))
  /\ last = [op |-> "none", ret |-> VOID, log |-> <<>>, fresh |-> FALSE]
  /\ th = IdleThreads

(*************************** host operations ********************************)
Alive == phase # "crashed"

LivePtrs == {p \in Ptr : ev[p].alloc = "live"}

\* the timer properties the host passes to trh_timer_init
TimerProfiles == [null : {FALSE}, kind : {"pos", "zero"}, repeat : BOOLEAN, on_expire : {"return", "release_self", "stop_self"}, on_released : BOOLEAN]

NullProps == [null |-> TRUE, kind |-> "zero", repeat |-> FALSE, on_expire |-> "null", on_released |-> FALSE]

\* the calls of trh_timer_init: every profile with nothing failing, and one
\* profile with each null argument and each failing step
FailProfile == [null |-> FALSE, kind |-> "pos", repeat |-> TRUE, on_expire |-> "return", on_released |-> TRUE]

\* a profile whose sec/nsec timerfd_settime rejects (EINVAL)
InvalidProfile == [FailProfile EXCEPT !.kind = "invalid"]

\* a repeating timer whose on_expire makes the renewal fail
RearmFailProfile == [FailProfile EXCEPT !.kind = "pos", !.repeat = TRUE, !.on_expire = "set_invalid"]

TimerInitInputs ==
  {[props |-> pr, out |-> TRUE, fail |-> "none", ndebug |-> FALSE] : pr \in TimerProfiles \cup {InvalidProfile, RearmFailProfile}}
  \cup {[props |-> NullProps, out |-> TRUE, fail |-> "none", ndebug |-> nd] : nd \in BOOLEAN}
  \cup {[props |-> FailProfile, out |-> FALSE, fail |-> "none", ndebug |-> nd] : nd \in BOOLEAN}
  \cup {[props |-> FailProfile, out |-> TRUE, fail |-> f, ndebug |-> FALSE] : f \in {"malloc_event", "timerfd_create", "malloc_props", "epoll_ctl"}}

\* the call as the log records it
InputEntry(i) ==
  Entry("input", NULL, 0, {i.fail, i.props.kind} \cup (IF i.props.null THEN {"null_props"} ELSE {}) \cup (IF i.out THEN {} ELSE {"null_out"}))

DoInit ==
  /\ phase = "pre"
  /\ \E failAt \in 0 .. Len(SignalOrder), epfail \in BOOLEAN :
       Commit(trh_init([World EXCEPT !.log = <<Entry("input", NULL, failAt, IF epfail THEN {"epoll_create1"} ELSE {})>>], failAt, epfail), "trh_init")
  /\ UNCHANGED th

DoUpdate ==
  /\ phase \in {"pre", "run", "initfailed"}
  /\ \E wait \in Waits(World), u \in UbOutcome : Commit(trh_update([World EXCEPT !.ub = u], wait), "trh_update")
  /\ UNCHANGED th

DoTerminate ==
  /\ phase = "run"
  /\ Commit(trh_terminate(World), "trh_terminate")
  /\ UNCHANGED th

DoIsTerminating ==
  /\ phase = "run"
  /\ Commit(trh_is_terminating(World), "trh_is_terminating")
  /\ UNCHANGED th

DoGetAppTime ==
  /\ phase = "run"
  /\ Commit(trh_get_app_time(World), "trh_get_app_time")
  /\ UNCHANGED th

DoGetDt ==
  /\ phase = "run"
  /\ Commit(trh_get_dt(World), "trh_get_dt")
  /\ UNCHANGED th

DoSetLoopErrorHandler ==
  /\ phase \in {"pre", "run", "initfailed"}
  /\ \E h \in LoopHandler : Commit(trh_set_loop_error_handler(World, h), "trh_set_loop_error_handler")
  /\ UNCHANGED th

DoSetSignalHandler ==
  /\ phase \in {"pre", "run", "initfailed"}
  /\ \E sg \in Signals, h \in {"usr", NULL}, sigfail \in BOOLEAN :
       Commit([trh_set_signal_handler(World, sg, h, sigfail) EXCEPT !.log = <<Entry("arg", sg, 0, {h})>> \o @], "trh_set_signal_handler")
  /\ UNCHANGED th

DoRegister ==
  /\ phase = "run"
  /\ \E p \in LivePtrs \cup {NULL} :
       LET r == trh_event_register(World, p)
       IN  Commit([r EXCEPT !.log = <<Entry("arg", p, 0, {})>> \o @, !.gh.hist = IF p = DataPtr /\ r.ret = TRH_OK THEN "registered" ELSE @], "trh_event_register")
  /\ UNCHANGED th

DoUnregister ==
  /\ phase \in {"run", "released"}
  /\ \E p \in LivePtrs \cup {NULL} :
       Commit([trh_event_unregister(World, p) EXCEPT !.log = <<Entry("arg", p, 0, {})>> \o @, !.gh.hist = IF p = DataPtr /\ @ = "registered" THEN "unregistered" ELSE @], "trh_event_unregister")
  /\ UNCHANGED th

DoTimerInit ==
  /\ phase = "run"
  /\ ev[TimerPtr].alloc # "live"
  /\ \E i \in TimerInitInputs :
       Commit(trh_timer_init([World EXCEPT !.ndebug = i.ndebug, !.nospace = (i.fail = "epoll_ctl"), !.gh.out = NULL, !.log = <<InputEntry(i)>>], i.props, i.out, i.fail), "trh_timer_init")
  /\ UNCHANGED th

DoTimerStart ==
  /\ phase = "run"
  /\ ev[TimerPtr].alloc = "live"
  /\ Commit(trh_timer_start([World EXCEPT !.gh.nexp = 0], TimerPtr), "trh_timer_start")
  /\ UNCHANGED th

DoTimerStop ==
  /\ phase = "run"
  /\ ev[TimerPtr].alloc = "live"
  /\ Commit(trh_timer_stop(World, TimerPtr), "trh_timer_stop")
  /\ UNCHANGED th

DoTimerRelease ==
  /\ phase = "run"
  /\ \E p \in {q \in {TimerPtr} : ev[q].alloc = "live"} \cup {NULL} :
       Commit([trh_timer_release(World, p) EXCEPT !.log = <<Entry("arg", p, 0, {})>> \o @], "trh_timer_release")
  /\ UNCHANGED th

DoRelease ==
  /\ phase = "run"
  /\ Commit(trh_release(World), "trh_release")
  /\ UNCHANGED th

(*************************** environment ************************************)
\* an armed kernel timer reaches its expiration time
TimerExpire ==
  /\ Alive
  /\ \E f \in FD : /\ fdt[f] = "timerfd" /\ tfd[f].armed
                   /\ tfd' = [tfd EXCEPT ![f] = [armed |-> FALSE, ticks |-> 1]]
  /\ last' = [last EXCEPT !.fresh = FALSE]
  /\ UNCHANGED <<gsApplication, phase, fdt, interest, cond, ev, now, gh, sigdisp, th>>

\* the condition of the host's descriptor changes
FdCondition ==
  /\ Alive
  /\ fdt[HostFd] = "file"
  /\ \E c \in SUBSET EpollFlags : cond' = [cond EXCEPT ![HostFd] = c]
  /\ last' = [last EXCEPT !.fresh = FALSE]
  /\ UNCHANGED <<gsApplication, phase, fdt, interest, tfd, ev, now, gh, sigdisp, th>>

\* a graceful-stop signal is delivered while no operation is in progress
GracefulSignal ==
  /\ Alive
  /\ \E sg \in Signals : sigdisp[sg] = "exit"
  /\ gsApplication' = local_signal_handle_exit(World).app
  /\ last' = [last EXCEPT !.fresh = FALSE]
  /\ UNCHANGED <<phase, fdt, interest, tfd, cond, ev, now, gh, sigdisp, th>>

\* a fault signal (SIGILL, SIGABRT, SIGFPE, SIGSEGV) sent to the process, by
\* kill(2) or raise(3), is delivered while no operation is in progress
FaultSignal ==
  /\ Alive
  /\ ~gh.fault
  /\ \E sg \in Signals : sigdisp[sg] = "error"
  /\ gh' = local_signal_handle_error(World).gh
  /\ phase' = local_signal_handle_error(World).phase
  /\ last' = [last EXCEPT !.fresh = FALSE]
  /\ UNCHANGED <<gsApplication, fdt, interest, tfd, cond, ev, now, sigdisp, th>>

\* the application object and the reactor with the host's own source
Next ==
  \/ DoInit \/ DoUpdate \/ DoTerminate \/ DoIsTerminating \/ DoGetAppTime \/ DoGetDt
  \/ DoSetLoopErrorHandler \/ DoRegister \/ DoUnregister \/ DoRelease
  \/ FdCondition \/ GracefulSignal

Spec == Init /\ [][Next]_vars

\* the timers on the reactor; the host's own descriptor stays idle
TimerNext ==
  \/ DoInit \/ DoUpdate \/ DoTerminate \/ DoIsTerminating \/ DoGetAppTime \/ DoGetDt
  \/ DoRegister \/ DoUnregister \/ DoRelease
  \/ DoTimerInit \/ DoTimerStart \/ DoTimerStop \/ DoTimerRelease
  \/ TimerExpire \/ GracefulSignal

TimerInit == Init /\ ev[DataPtr].handle_error

TimerSpec == TimerInit /\ [][TimerNext]_vars

(*************************** properties *************************************)
\* the log of the last operation
NCalls(name, p) == Cardinality({i \in DOMAIN last.log : last.log[i].f = name /\ last.log[i].p = p})

Polled == last.op = "trh_update"

\* the epoll_wait of the last trh_update: [code |-> n, events |-> {errno}]
WaitEntry == last.log[1]

WaitFailed == Polled /\ WaitEntry.code = 0 - 1

TimerFd == ev[TimerPtr].fd

C2_DispatchByCondition ==
  Polled => \A i \in DOMAIN last.log :
    last.log[i].f = "local_epoll_event" =>
      LET e == last.log[i]
      IN  /\ (e.events \cap {"ERR", "HUP"} # {}) => (e.code = TRH_EPOLL_ERROR /\ NCalls("on_ready", e.p) = 0)
          /\ (e.events = {"IN"}) => (NCalls("on_ready", e.p) = 1 /\ NCalls("on_error", e.p) = 0)

\* C3 (as claimed): after register(s) and unregister(s), a trh_update whose
\* wait did not fail calls no callback of s and returns TRH_WAITING.
C3_UnregisteredNotDispatched ==
  (Polled /\ ~WaitFailed /\ phase = "run" /\ gh.hist = "unregistered")
    => (NCalls("on_ready", DataPtr) = 0 /\ NCalls("on_error", DataPtr) = 0 /\ last.ret = TRH_WAITING)

\* C4: a one-shot timer has had at most one on_expire call since the host
\* last started it (trh_timer_init or trh_timer_start).
C4_OneShotFiresOnce == (ev[TimerPtr].alloc # "none" /\ ev[TimerPtr].timer /\ ~ev[TimerPtr].repeat) => gh.nexp <= 1

\* C4 witness: a one-shot timer fired once, and a later trh_update, made
\* while the timer still exists, dispatched nothing.
C4_Witness == ev[TimerPtr].alloc = "live" /\ ~ev[TimerPtr].repeat /\ gh.nexp = 1 /\ Polled /\ WaitEntry.code = 0

\* C5 (as claimed): when the expiry dispatch of a one-shot timer has
\* returned, the timer is unregistered, its descriptor closed, its memory
\* freed and on_released, if set, was called once.
C5_OneShotRetired ==
  (Polled /\ last.fresh /\ phase = "run" /\ NCalls("on_expire", TimerPtr) > 0 /\ ~ev[TimerPtr].repeat)
    => /\ ev[TimerPtr].alloc = "freed"
       /\ \A f \in FD : interest[f] # TimerPtr /\ fdt[f] # "timerfd"
       /\ ev[TimerPtr].on_released => gh.nrel = 1

\* C6 (as claimed): on_expire is never called twice without the timer having been armed
\* in between; one trh_update calls on_expire of a timer at most once; and
\* when a trh_update that dispatched the expiry of a repeating timer whose
\* callback just returns is over, the timer is armed again for one interval,
\* its expiration count cleared, running and still registered.
C6_RepeatingRearmed ==
  /\ ~gh.twice
  /\ Polled => NCalls("on_expire", TimerPtr) <= 1
  /\ (Polled /\ last.fresh /\ phase = "run" /\ NCalls("on_expire", TimerPtr) = 1 /\ ev[TimerPtr].repeat /\ ev[TimerPtr].on_expire = "return")
       => (ev[TimerPtr].alloc = "live" /\ ev[TimerPtr].running /\ tfd[TimerFd] = [armed |-> TRUE, ticks |-> 0] /\ interest[TimerFd] = TimerPtr)

\* C6 witness: a repeating timer has fired a second time and is armed again.
C6_Witness == Polled /\ last.fresh /\ NCalls("on_expire", TimerPtr) = 1 /\ ev[TimerPtr].alloc = "live" /\ ev[TimerPtr].repeat /\ gh.nexp = 2 /\ tfd[TimerFd].armed

\* C7 (as claimed): when on_expire released its own timer, the expiry
\* dispatch does not touch the timer after the callback has returned.
C7_SelfReleaseTolerated == gh.selfrel => "dispatch" \notin gh.uaf

\* C10 (as claimed): when the wait of trh_update fails, trh_update returns
\* TRH_WAITING if the failure is EINTR and the loop-error handler returned
\* TRH_OK, and TRH_EPOLL_FAILED otherwise; no event callback is called; the
\* handler is called at most once, and only for EINTR.
C10_WaitFailure ==
  WaitFailed =>
    /\ last.ret = (IF WaitEntry.events = {"EINTR"} /\ NCalls("handle_loop_error", NULL) = 1 /\ gsApplication.handle_error = "ok" THEN TRH_WAITING ELSE TRH_EPOLL_FAILED)
    /\ \A i \in DOMAIN last.log : last.log[i].f \notin {"on_ready", "on_error", "on_expire", "local_epoll_event"}
    /\ NCalls("handle_loop_error", NULL) <= 1
    /\ WaitEntry.events # {"EINTR"} => NCalls("handle_loop_error", NULL) = 0

\* C11 (as claimed): a trh_update whose wait reported no event returns
\* TRH_WAITING, and trh_update returns TRH_OK only when the wait succeeded
\* and at least one event was dispatched.
C11_TickReturnValue ==
  (Polled /\ phase = "run") => /\ WaitEntry.code = 0 => last.ret = TRH_WAITING
                               /\ last.ret = TRH_OK => WaitEntry.code > 0

(*************************** the reactor with several sources ***************)
\* a TTrhEvent of the host on descriptor fd; fails: its callbacks return a
\* failure code
Source(fd, fails) == [NoEvent EXCEPT !.alloc = "live", !.fd = fd, !.handle_error = TRUE, !.fails = fails]

\* the host has opened two more descriptors and owns five sources: one per
\* descriptor (the callbacks of the third return a failure code), a second
\* one on the descriptor of the second, and one whose descriptor is -1
ReactorWorld ==
  LET w == StartWorld(TRUE)
  IN  [w EXCEPT !.fdt[HostFd + 1] = "file", !.fdt[HostFd + 2] = "file",
                !.ev[HostPtrs[2]] = Source(HostFd + 1, FALSE),
                !.ev[HostPtrs[3]] = Source(HostFd + 2, TRUE),
                !.ev[HostPtrs[4]] = Source(HostFd + 1, FALSE),
                !.ev[HostPtrs[5]] = Source(NoFd, FALSE)]

\* trh_init has succeeded
ReactorInit ==
  /\ IsWorld(trh_init(ReactorWorld, 0, FALSE))
  /\ last = [op |-> "trh_init", ret |-> 1, log |-> <<>>, fresh |-> TRUE]
  /\ th = IdleThreads

\* the conditions a descriptor of the host takes
SourceConds == {{}, {"IN"}, {"IN", "ERR"}}

SourceCondition ==
  /\ Alive
  /\ \E f \in HostFd .. HostFd + 2, c \in SourceConds :
       /\ fdt[f] = "file"
       /\ cond' = [cond EXCEPT ![f] = c]
  /\ last' = [last EXCEPT !.fresh = FALSE]
  /\ UNCHANGED <<gsApplication, phase, fdt, interest, tfd, ev, now, gh, sigdisp, th>>

ReactorNext == DoRegister \/ DoUnregister \/ DoUpdate \/ DoRelease \/ SourceCondition

ReactorSpec == ReactorInit /\ [][ReactorNext]_vars

\* the argument of the last trh_event_register / trh_event_unregister
Arg == last.log[1].p

\* the step is a call of the named operation that has just returned
Called(op) == last'.fresh /\ last'.op = op

FrameVars == <<gsApplication, phase, fdt, interest, tfd, cond, ev, now, sigdisp>>

\* C13: trh_event_register of a source whose descriptor is already in the
\* interest list, or is no open descriptor, returns TRH_EPOLL_FAILED and
\* leaves every association of the interest list as it was.
C13_DuplicateRefused ==
  [][(Called("trh_event_register") /\ Arg' # NULL /\ (ev[Arg'].fd \notin FD \/ interest[ev[Arg'].fd] # NULL))
        => (last'.ret = TRH_EPOLL_FAILED /\ interest' = interest)]_vars

\* C13 witness: the second source on a descriptor was refused while the
\* descriptor is routed to the first one
C13_Witness ==
  /\ last.op = "trh_event_register" /\ last.fresh /\ Arg = HostPtrs[4]
  /\ last.ret = TRH_EPOLL_FAILED /\ interest[HostFd + 1] = HostPtrs[2]

\* C14: trh_event_register(NULL) returns TRH_ARG_INVALID and changes nothing.
C14_RegisterNull ==
  [][(Called("trh_event_register") /\ Arg' = NULL) => (last'.ret = TRH_ARG_INVALID /\ UNCHANGED FrameVars)]_vars

\* C14 witness: trh_event_register(NULL) was called with sources registered
C14_Witness ==
  /\ last.op = "trh_event_register" /\ last.fresh /\ Arg = NULL
  /\ interest[HostFd] = DataPtr /\ interest[HostFd + 1] = HostPtrs[2]

\* C15: trh_event_unregister of a null source, or after trh_release has
\* closed the epoll descriptor, changes nothing, calls no epoll_ctl and
\* returns normally.
C15_UnregisterNoOp ==
  [][(Called("trh_event_unregister") /\ (Arg' = NULL \/ phase = "released"))
        => (UNCHANGED FrameVars /\ Len(last'.log) = 1 /\ last'.ret = VOID)]_vars

\* C15 witness: trh_event_unregister of a live source after trh_release
C15_Witness == last.op = "trh_event_unregister" /\ last.fresh /\ phase = "released" /\ Arg = DataPtr

\* the entries of the last operation's log with the given names
Entries(names) == SelectSeq(last.log, LAMBDA e : e.f \in names)

\* the callback the claim expects for a reported event, if any
Expected(e) ==
  IF e.events \cap {"ERR", "HUP"} # {} THEN <<[f |-> "on_error", p |-> e.p]>>
  ELSE IF "IN" \in e.events THEN <<[f |-> "on_ready", p |-> e.p]>>
  ELSE <<>>

RECURSIVE Flatten(_)
Flatten(ss) == IF ss = <<>> THEN <<>> ELSE Head(ss) \o Flatten(Tail(ss))

\* C16: every event of the batch epoll_wait returned is passed to
\* local_epoll_event exactly once, in the reported order, whatever the
\* results of the events before it; so are the callbacks.
C16_BatchNotCutShort ==
  (Polled /\ phase = "run") =>
    LET rep == Entries({"reported"})
        dis == Entries({"local_epoll_event"})
        cbs == Entries({"on_ready", "on_error"})
    IN  /\ Len(dis) = Len(rep)
        /\ \A i \in DOMAIN rep : dis[i].p = rep[i].p /\ dis[i].events = rep[i].events
        /\ (\A i \in DOMAIN rep : ev[rep[i].p].handle_error /\ ~ev[rep[i].p].isTimer /\ "HUP" \notin rep[i].events)
              => [i \in DOMAIN cbs |-> [f |-> cbs[i].f, p |-> cbs[i].p]] = Flatten([i \in DOMAIN rep |-> Expected(rep[i])])

\* C16 witness: a batch of three whose first event yielded TRH_EPOLL_ERROR
\* and whose second event's callback returned a failure code
C16_Witness ==
  /\ Polled /\ phase = "run" /\ WaitEntry.code = 3
  /\ Entries({"local_epoll_event"})[1].code = TRH_EPOLL_ERROR
  /\ Entries({"on_ready", "on_error"})[2].code = TRH_FAILED
  /\ Len(Entries({"on_ready", "on_error"})) = 3

(*************************** more ready sources than EPOLL_EVENTS ***********)
\* the host owns MaxSources sources, each on a descriptor of its own
WideWorld ==
  LET w == StartWorld(TRUE)
  IN  [w EXCEPT !.fdt = [f \in FD |-> IF f < HostFd + MaxSources THEN "file" ELSE "closed"],
                !.ev = [p \in Ptr |-> IF \E i \in 1 .. MaxSources : p = HostPtrs[i]
                                      THEN Source(HostFd - 1 + (CHOOSE i \in 1 .. MaxSources : p = HostPtrs[i]), FALSE)
                                      ELSE NoEvent]]

RECURSIVE RegisterAll(_, _)
\* trh_event_register of the first n sources
RegisterAll(w, n) == IF n = 0 THEN w ELSE trh_event_register(RegisterAll(w, n - 1), HostPtrs[n])

\* trh_init has succeeded and the host has registered all its sources
WideInit ==
  /\ IsWorld(RegisterAll(trh_init(WideWorld, 0, FALSE), MaxSources))
  /\ last = [op |-> "trh_event_register", ret |-> TRH_OK, log |-> <<Entry("arg", HostPtrs[MaxSources], 0, {})>>, fresh |-> TRUE]
  /\ th = IdleThreads

\* data arrives on the sources, one after the other
SourceReady ==
  /\ Alive
  /\ \E f \in HostFd .. HostFd + MaxSources - 1 :
       /\ cond[f] = {} /\ \A g \in HostFd .. f - 1 : cond[g] # {}
       /\ cond' = [cond EXCEPT ![f] = {"IN"}]
  /\ last' = [last EXCEPT !.fresh = FALSE]
  /\ UNCHANGED <<gsApplication, phase, fdt, interest, tfd, ev, now, gh, sigdisp, th>>

WideNext == DoUpdate \/ SourceReady

WideSpec == WideInit /\ [][WideNext]_vars

\* C17: one trh_update whose wait succeeded passes at most EPOLL_EVENTS
\* events to local_epoll_event, at most one per source; a registered source that was
\* ready and is not in the batch has no callback called, and is registered
\* and ready as before when trh_update has returned.
C17_BatchBounded ==
  [][(Called("trh_update") /\ last'.log[1].code >= 0) =>
       LET D == {e.p : e \in {last'.log[i] : i \in {k \in DOMAIN last'.log : last'.log[k].f = "local_epoll_event"}}}
           C == {e.p : e \in {last'.log[i] : i \in {k \in DOMAIN last'.log : last'.log[k].f \in {"on_ready", "on_error"}}}}
           n == Cardinality({k \in DOMAIN last'.log : last'.log[k].f = "local_epoll_event"})
           R == k_ready(World)
           Q == k_ready([World EXCEPT !.interest = interest', !.cond = cond', !.fdt = fdt', !.tfd = tfd'])
       IN  /\ n = Min(Cardinality(R), EPOLL_EVENTS)
           /\ Cardinality(D) = n
           /\ \A f \in R : interest[f] \notin D
                 => (interest[f] \notin C /\ interest'[f] = interest[f] /\ cond'[f] = cond[f] /\ f \in Q)]_vars

\* C17 witness: more than EPOLL_EVENTS sources were ready, EPOLL_EVENTS of
\* them were dispatched, and one that was left out is still registered and
\* ready
C17_Witness ==
  /\ Polled /\ last.fresh /\ WaitEntry.code = EPOLL_EVENTS
  /\ Cardinality(k_ready(World)) > EPOLL_EVENTS
  /\ \E f \in k_ready(World) : NCalls("local_epoll_event", interest[f]) = 0 /\ NCalls("on_ready", interest[f]) = 0

(*************************** timer creation *********************************)
\* the most recent step was a call to trh_timer_init
TimerInitCalled == last.fresh /\ last.op = "trh_timer_init"

\* what that call was given: the step made to fail, the kind of interval,
\* and the null arguments
TimerInitInput == last.log[1].events

\* no timer memory, no timer descriptor, no timer in the poll set, and the
\* caller's TTrhEvent* as it was before the call
NothingLeft ==
  /\ ev[TimerPtr].alloc # "live"
  /\ \A f \in FD : fdt[f] # "timerfd" /\ interest[f] # TimerPtr
  /\ gh.out = NULL

\* C18: after trh_timer_init returned TRH_OK, *oEvent is the timer, the timer's
\* descriptor is in the poll set and routed to the timer, the kernel timer is
\* armed, the timer is running, and the timer has the values of the
\* properties it was created with
C18_TimerInitPostcondition ==
  (TimerInitCalled /\ last.ret = TRH_OK) =>
     /\ gh.out = TimerPtr
     /\ ev[TimerPtr].alloc = "live" /\ ev[TimerPtr].timer
     /\ TimerFd \in FD /\ fdt[TimerFd] = "timerfd" /\ interest[TimerFd] = TimerPtr
     /\ tfd[TimerFd].armed
     /\ ev[TimerPtr].running
     /\ ev[TimerPtr].kind \in TimerInitInput

\* the error of the first step of trh_timer_init that fails, TRH_OK if none
\* does: timerfd_create, the allocation of the properties, timerfd_settime,
\* the registration
ExpectedInitCode ==
  IF "timerfd_create" \in TimerInitInput THEN TRH_TIMER_FAILED
  ELSE IF "malloc_props" \in TimerInitInput THEN TRH_OUT_OF_MEM
  ELSE IF "invalid" \in TimerInitInput THEN TRH_TIMER_FAILED
  ELSE IF "epoll_ctl" \in TimerInitInput THEN TRH_EPOLL_FAILED
  ELSE TRH_OK

\* C19: when a step of trh_timer_init fails, the call returns the error of
\* that step and leaves no timer memory, no timer descriptor and no
\* registration, and *oEvent is not written
C19_TimerInitFailureClean ==
  (TimerInitCalled /\ TimerInitInput \cap {"null_props", "null_out", "malloc_event"} = {} /\ ExpectedInitCode # TRH_OK) =>
     last.ret = ExpectedInitCode /\ NothingLeft

\* C20: trh_timer_init with null properties or a null oEvent returns
\* TRH_ARG_INVALID, and no timer is allocated, no timer descriptor is created
\* and nothing is registered
C20_TimerInitNullArgs ==
  (TimerInitCalled /\ TimerInitInput \cap {"null_props", "null_out"} # {}) =>
     last.ret = TRH_ARG_INVALID /\ phase # "crashed" /\ NothingLeft

(*************************** timer operations *******************************)
\* the results of the timerfd_settime calls the latest operation made with
\* a value of one of the kinds
SetResults(kinds) == {last.log[i].code : i \in {k \in DOMAIN last.log : last.log[k].f = "timerfd_settime" /\ last.log[k].events \subseteq kinds}}

\* the timer is gone: freed, its descriptor closed, nothing of it in the poll set
TimerGone ==
  /\ ev[TimerPtr].alloc = "freed"
  /\ \A f \in FD : fdt[f] # "timerfd" /\ interest[f] # TimerPtr

\* C21: when the renewal of a repeating timer fails in a dispatch, the timer
\* is released (out of the poll set, descriptor closed, memory freed) and
\* local_timer_event returns TRH_TIMER_FAILED, once
C21_RearmFailureReleases ==
  (Polled /\ NCalls("on_expire", TimerPtr) > 0 /\ (0 - 1) \in SetResults(SpecKind)) =>
     /\ TimerGone
     /\ NCalls("local_timer_event", TimerPtr) = 1
     /\ \A i \in DOMAIN last.log : last.log[i].f = "local_timer_event" => last.log[i].code = TRH_TIMER_FAILED

\* the most recent step was a call of trh_timer_start by the host
TimerStartCalled == last.fresh /\ last.op = "trh_timer_start"

\* C22: trh_timer_start arms the kernel timer for the timer's interval; the
\* timer is running exactly when timerfd_settime succeeded, and when it
\* failed trh_timer_start does not return TRH_OK
C22_StartReportsArming ==
  TimerStartCalled =>
     /\ ev[TimerPtr].running <=> SetResults(SpecKind) = {0}
     /\ SetResults({"pos"}) = {0} => tfd[TimerFd].armed
     /\ SetResults(SpecKind) # {0} => last.ret # TRH_OK

\* the timer operations on an initialised application, the host's own
\* source left alone
TimerOpsInit ==
  /\ IsWorld(trh_init(StartWorld(TRUE), 0, FALSE))
  /\ last = [op |-> "trh_init", ret |-> 1, log |-> <<>>, fresh |-> TRUE]
  /\ th = [t \in Threads |-> IdleThread]

TimerOpsNext ==
  \/ DoTimerInit \/ DoTimerStart \/ DoTimerStop \/ DoTimerRelease
  \/ DoUpdate \/ TimerExpire

TimerOpsSpec == TimerOpsInit /\ [][TimerOpsNext]_vars

\* the state, without the log and the return value of the operation
StateOf(w) == <<w.app, w.phase, w.fdt, w.interest, w.tfd, w.cond, w.ev, w.now, w.gh, w.sigdisp>>

\* C23: trh_timer_stop disarms the kernel timer and clears `running`; the
\* timer stays allocated and registered and nothing else changes; a second
\* trh_timer_stop changes nothing
C23_StopIdempotent ==
  [][Called("trh_timer_stop") =>
       /\ ~tfd'[TimerFd].armed /\ tfd'[TimerFd].ticks = 0
       /\ ev' = [ev EXCEPT ![TimerPtr].running = FALSE]
       /\ ev'[TimerPtr].alloc = "live"
       /\ \A f \in FD \ {TimerFd} : tfd'[f] = tfd[f]
       /\ UNCHANGED <<gsApplication, phase, fdt, interest, cond, now, sigdisp, gh>>
       /\ (~ev[TimerPtr].running /\ tfd[TimerFd] = ZeroTfd) => UNCHANGED FrameVars
       /\ StateOf(trh_timer_stop(World', TimerPtr)) = StateOf(World')]_vars

\* C23 witness: trh_timer_stop has stopped a timer that was armed and
\* running, and the timer is still in the poll set
C23_Witness ==
  /\ last.fresh /\ last.op = "trh_timer_stop"
  /\ ev[TimerPtr].alloc = "live" /\ ev[TimerPtr].kind = "pos" /\ ~ev[TimerPtr].running
  /\ interest[TimerFd] = TimerPtr /\ tfd[TimerFd] = ZeroTfd

\* the names of the steps the latest operation logged for the timer
TimerSteps(log) == [i \in 1 .. Len(SelectSeq(log, LAMBDA e : e.p = TimerPtr /\ e.f # "arg")) |-> SelectSeq(log, LAMBDA e : e.p = TimerPtr /\ e.f # "arg")[i].f]

\* C24: trh_timer_release takes the timer out of the poll set, closes its
\* descriptor, calls on_released once if it is set, with the timer's memory
\* still allocated, and frees the timer, in this order; a trh_update made
\* after the release calls no callback of the timer; trh_timer_release(NULL)
\* changes nothing
C24_ReleaseOrder ==
  [][/\ (Called("trh_timer_release") /\ Arg' = NULL) => UNCHANGED <<FrameVars, gh>>
     /\ (Called("trh_timer_release") /\ Arg' # NULL) =>
          /\ TimerSteps(last'.log) = (IF ev[TimerPtr].on_released THEN <<"epoll_ctl", "close", "on_released", "free">> ELSE <<"epoll_ctl", "close", "free">>)
          /\ \A i \in DOMAIN last'.log : last'.log[i].f = "on_released" => last'.log[i].events = {"valid", "closed", "unregistered"}
          /\ ev'[TimerPtr].alloc = "freed"
          /\ \A f \in FD : fdt'[f] # "timerfd" /\ interest'[f] # TimerPtr
     /\ (Called("trh_update") /\ ev[TimerPtr].alloc = "freed") => TimerSteps(last'.log) = <<>>]_vars

\* C24 witness: a running timer with an on_released callback has been
\* released by the host, and a trh_update after that found nothing to report
C24_Witness ==
  /\ Polled /\ last.fresh /\ WaitEntry.code = 0
  /\ ev[TimerPtr].alloc = "freed" /\ ev[TimerPtr].on_released /\ ev[TimerPtr].running
  /\ gh.nrel = 1 /\ gh.nexp = 1

\* the host creates timers, leaves them alone and releases them
TimerIdleNext == DoTimerInit \/ DoTimerRelease \/ DoUpdate \/ TimerExpire

\* the host keeps calling trh_update, and an armed kernel timer reaches its
\* expiration time
TimerFairSpec == TimerOpsInit /\ [][TimerIdleNext]_vars /\ WF_vars(DoUpdate) /\ WF_vars(TimerExpire)

\* C25 (as claimed): a one-shot timer that trh_timer_init created with
\* interval 0 and an on_expire callback has its callback called by one of
\* the trh_update calls that follow, unless the host stops or releases it
\* first
C25_ZeroIntervalFires ==
  (TimerInitCalled /\ last.ret = TRH_OK /\ "zero" \in TimerInitInput /\ ~ev[TimerPtr].repeat /\ ev[TimerPtr].on_expire # "null")
    ~> (gh.nexp > 0 \/ ev[TimerPtr].alloc # "live" \/ ~ev[TimerPtr].running)

(*************************** signal dispositions ****************************)
\* the signals whose disposition trh_init sets
Reserved == Signals \ UserSignals

\* the life of the application object and the signal dispositions
SignalNext ==
  \/ DoInit \/ DoSetSignalHandler \/ DoSetLoopErrorHandler \/ DoUpdate \/ DoTerminate \/ DoRelease
  \/ GracefulSignal \/ FaultSignal

SignalSpec == Init /\ [][SignalNext]_vars

\* C26: trh_set_signal_handler returns TRH_ARG_INVALID and changes no
\* disposition when the signal is not SIGUSR1 or SIGUSR2 or the handler is
\* null; otherwise it changes at most the disposition of that signal, to the
\* handler when it returns TRH_OK. After a successful trh_init no operation
\* changes the dispositions trh_init installed.
C26_UserSignalsOnly ==
  [][/\ Called("trh_set_signal_handler") =>
          IF Arg' \notin UserSignals \/ NULL \in last'.log[1].events
          THEN last'.ret = TRH_ARG_INVALID /\ sigdisp' = sigdisp
          ELSE /\ last'.ret \in {TRH_OK, TRH_SIGNAL_FAILED}
               /\ sigdisp' = (IF last'.ret = TRH_OK THEN [sigdisp EXCEPT ![Arg'] = "usr"] ELSE sigdisp)
     /\ phase = "run" => \A sg \in Reserved : sigdisp[sg] = SignalHandlerOf(sg) /\ sigdisp'[sg] = sigdisp[sg]]_vars

\* C26 witness: after trh_init the host has set a handler for one user
\* signal, and a call for a reserved signal was refused
C26_Witness ==
  /\ last.fresh /\ last.op = "trh_set_signal_handler" /\ last.ret = TRH_ARG_INVALID
  /\ last.log[1].p = "SIGINT" /\ last.log[1].events = {"usr"}
  /\ phase = "run"
  /\ sigdisp["SIGUSR1"] = "usr" /\ sigdisp["SIGUSR2"] = "default" /\ sigdisp["SIGINT"] = "exit"

\* the most recent step was a call of trh_init; its log begins with what was
\* made to fail: the index of the signal() call, and epoll_create1
InitCalled == last.fresh /\ last.op = "trh_init" /\ Len(last.log) > 0

\* the epoll descriptors that are open
EpollFds == {f \in FD : fdt[f] = "epoll"}

\* C27 (as claimed): when one of the signal() calls of trh_init fails,
\* trh_init returns null, none of the dispositions set earlier in the call is
\* left installed, and no epoll descriptor is created
C27_NoPartialSignalState ==
  (InitCalled /\ last.log[1].code # 0) =>
     /\ last.ret = 0
     /\ \A sg \in Reserved : sigdisp[sg] = "default"
     /\ EpollFds = {}

\* C28: trh_init returns null exactly when a signal() call or epoll_create1
\* fails; when it succeeds gsApplication is zero (not terminating, time_app
\* and dt 0, no loop-error handler) but for time_system, which is the clock
\* value, the initialised mutex and epoll_fd, the one epoll descriptor open
C28_InitResult ==
  InitCalled =>
     /\ last.ret = 0 <=> (last.log[1].code # 0 \/ last.log[1].events # {})
     /\ last.ret # 0 =>
          /\ last.ret = 1 /\ phase = "run"
          /\ Cardinality(EpollFds) = 1 /\ gsApplication.epoll_fd \in EpollFds
          /\ gsApplication = [ZeroApplication EXCEPT !.time_system = now, !.epoll_fd = gsApplication.epoll_fd, !.mutex.state = "init"]

\* C28 witness: trh_init has succeeded
C28_Witness == InitCalled /\ last.ret = 1 /\ phase = "run" /\ gsApplication.epoll_fd \in EpollFds /\ ~gsApplication.terminate

\* C29 (as claimed): local_signal_handle_error does not return to the code
\* it interrupted: once it has run, the process is gone and no operation is
\* called
C29_FaultHandlerAborts == [][gh.fault => ~last'.fresh]_vars

(*************************** the clock **************************************)
\* CLOCK_REALTIME takes values in 0 .. MaxTime
MaxTime == 3

\* the wall clock moves, forward or (when it is set) backward
ClockStep ==
  /\ Alive
  /\ \E t \in 0 .. MaxTime : t # now /\ now' = t
  /\ last' = [last EXCEPT !.fresh = FALSE]
  /\ UNCHANGED <<gsApplication, phase, fdt, interest, tfd, cond, ev, gh, sigdisp, th>>

ClockNext == DoInit \/ DoUpdate \/ DoGetAppTime \/ DoGetDt \/ ClockStep

\* the process may start at any clock value
ClockInit ==
  /\ \E t \in 0 .. MaxTime : IsWorld([StartWorld(TRUE) EXCEPT !.now = t])
  /\ last = [op |-> "none", ret |-> VOID, log |-> <<>>, fresh |-> FALSE]
  /\ th = IdleThreads

ClockSpec == ClockInit /\ [][ClockNext]_vars

\* C12: after trh_init, system time is the clock value read by the latest
\* trh_init or trh_update, app time is the sum of the dt values of the
\* trh_update calls so far, and after a trh_update dt is the clock value it
\* read minus the one read by the call before it.
C12_ClockAccounting ==
  phase = "run" => /\ gsApplication.time_system = gh.read
                   /\ gsApplication.time_app = gh.sumdt
                   /\ Polled => gsApplication.dt = gh.read - gh.prevread
                   /\ (Polled /\ last.fresh) => gsApplication.time_system = now

\* C12 witness: after at least two ticks, the last one with the clock set
\* back by one
C12_Witness == Polled /\ phase = "run" /\ gsApplication.dt = 0 - 1 /\ gsApplication.time_app = 2 /\ gh.prevread = 3

(*************************** threads and signal handlers ********************)
\* The operations step by step: each thread locks, accesses the fields and
\* unlocks; a graceful-stop signal is delivered to either thread at any
\* point and local_signal_handle_exit runs on that thread's stack, the
\* interrupted operation resuming when the handler has returned.

\* signals delivered in one run
MaxSignals == 2

\* the main thread runs  while( !trh_is_terminating() ) trh_update();
\* the other thread calls the accessors and trh_terminate
OpsOf(t) == IF t = "main" THEN {"trh_is_terminating", "trh_update"} ELSE {"trh_get_app_time", "trh_get_dt", "trh_terminate"}

NextOp(t, op) ==
  IF t # "main" THEN OpsOf(t)
  ELSE IF op = "trh_is_terminating" THEN {"trh_update"} ELSE {"trh_is_terminating"}

Running(t) == th[t].h = "none" /\ phase = "run"

SigFrame == <<phase, fdt, interest, tfd, cond, ev, now, gh, last, sigdisp>>

\* the thread enters an operation, up to its pthread_mutex_lock call
ThCall(t) ==
  /\ Running(t) /\ th[t].pc = "idle"
  /\ \E op \in NextOp(t, th[t].op) : th' = [th EXCEPT ![t].op = op, ![t].pc = "lock"]
  /\ UNCHANGED <<gsApplication, SigFrame>>

\* pthread_mutex_lock returns once the mutex is free
ThLock(t) ==
  /\ Running(t) /\ th[t].pc = "lock"
  /\ gsApplication.mutex.owner = NoThread
  /\ gsApplication' = pthread_mutex_lock(gsApplication, t)
  /\ th' = [th EXCEPT ![t].pc = "crit"]
  /\ UNCHANGED SigFrame

\* the field accesses made with the mutex held
ThCrit(t) ==
  /\ Running(t) /\ th[t].pc = "crit"
  /\ gsApplication' = (IF th[t].op = "trh_update" THEN update_clock(gsApplication, now)
                       ELSE IF th[t].op = "trh_terminate" THEN set_terminate(gsApplication)
                       ELSE gsApplication)
  /\ th' = [th EXCEPT ![t].pc = "unlock", ![t].val = gsApplication.terminate]
  /\ UNCHANGED SigFrame

\* a trh_update that goes on to epoll_wait with the mutex still locked
ThUnlock_heldwait(t) ==
  /\ Running(t) /\ th[t].pc = "unlock"
  /\ gsApplication' = (IF th[t].op = "trh_update" THEN gsApplication ELSE pthread_mutex_unlock(gsApplication))
  /\ th' = [th EXCEPT ![t].pc = IF th[t].op = "trh_update" THEN "wait"
                                ELSE IF t = "main" /\ th[t].op = "trh_is_terminating" /\ th[t].val THEN "stopped"
                                ELSE "idle",
                      ![t].intr = FALSE]
  /\ UNCHANGED SigFrame

\* pthread_mutex_unlock; trh_update goes on to epoll_wait, the others return,
\* and the host loop ends when trh_is_terminating returned true
ThUnlock(t) ==
  /\ Running(t) /\ th[t].pc = "unlock"
  /\ gsApplication' = pthread_mutex_unlock(gsApplication)
  /\ th' = [th EXCEPT ![t].pc = IF th[t].op = "trh_update" THEN "wait"
                                ELSE IF t = "main" /\ th[t].op = "trh_is_terminating" /\ th[t].val THEN "stopped"
                                ELSE "idle",
                      ![t].intr = FALSE]
  /\ UNCHANGED SigFrame

\* epoll_wait returns: no event after 10 ms, or -1 with EINTR when a handler
\* ran meanwhile; trh_update returns
ThWait(t) ==
  /\ Running(t) /\ th[t].pc = "wait"
  /\ gsApplication' = (IF th[t].intr THEN local_epoll_error(World, "EINTR").app ELSE gsApplication)
  /\ th' = [th EXCEPT ![t].pc = "idle", ![t].intr = FALSE]
  /\ UNCHANGED SigFrame

\* a graceful-stop signal is delivered to thread t: local_signal_handle_exit
\* starts (trh_log_end, trh_log) and reaches trh_terminate's lock call
SigDeliver(t) ==
  /\ phase = "run" /\ th[t].h = "none"
  /\ gh.nsig < MaxSignals
  /\ \E sg \in Signals : sigdisp[sg] = "exit"
  /\ th' = [th EXCEPT ![t].h = "lock", ![t].intr = (th[t].pc = "wait")]
  /\ gh' = [gh EXCEPT !.nsig = @ + 1]
  /\ UNCHANGED <<gsApplication, phase, fdt, interest, tfd, cond, ev, now, last, sigdisp>>

\* trh_terminate in the handler: pthread_mutex_lock returns once the mutex is
\* free. The mutex is a default (non-recursive) one: when the interrupted
\* thread itself holds it, the call never returns.
SigLock(t) ==
  /\ phase = "run" /\ th[t].h = "lock"
  /\ gsApplication.mutex.owner = NoThread
  /\ gsApplication' = pthread_mutex_lock(gsApplication, t)
  /\ th' = [th EXCEPT ![t].h = "crit"]
  /\ UNCHANGED SigFrame

SigCrit(t) ==
  /\ phase = "run" /\ th[t].h = "crit"
  /\ gsApplication' = set_terminate(gsApplication)
  /\ th' = [th EXCEPT ![t].h = "unlock"]
  /\ UNCHANGED SigFrame

\* the handler unlocks and returns to the interrupted code
SigUnlock(t) ==
  /\ phase = "run" /\ th[t].h = "unlock"
  /\ gsApplication' = pthread_mutex_unlock(gsApplication)
  /\ th' = [th EXCEPT ![t].h = "none"]
  /\ UNCHANGED SigFrame

ThreadStep(t) == ThCall(t) \/ ThLock(t) \/ ThCrit(t) \/ ThUnlock(t) \/ ThWait(t)

HandlerStep(t) == SigLock(t) \/ SigCrit(t) \/ SigUnlock(t)

SigNext == \E t \in Threads : ThreadStep(t) \/ HandlerStep(t) \/ SigDeliver(t)

\* the state trh_init leaves when nothing fails
SigInit ==
  /\ IsWorld(trh_init(StartWorld(TRUE), 0, FALSE))
  /\ last = [op |-> "trh_init", ret |-> 1, log |-> <<>>, fresh |-> TRUE]
  /\ th = IdleThreads

SigSpec == SigInit /\ [][SigNext]_vars

\* the scheduler runs every thread, and a thread that finds the mutex free
\* again and again eventually gets it
SigFairSpec == SigSpec /\ \A t \in Threads : SF_vars(ThreadStep(t)) /\ SF_vars(HandlerStep(t))

\* epoll_wait has returned events (or -1) to trh_update, and a callback of
\* the dispatch (on_ready, on_error, on_expire, on_released, the loop-error
\* handler) calls an accessor, up to its pthread_mutex_lock call
CbCall(t) ==
  /\ Running(t) /\ th[t].pc = "wait"
  /\ \E op \in {"trh_terminate", "trh_is_terminating", "trh_get_app_time", "trh_get_dt"} :
       th' = [th EXCEPT ![t].h = "lock", ![t].cb = op]
  /\ UNCHANGED <<gsApplication, SigFrame>>

\* the accessor called by the callback: lock, field access, unlock and return
\* to the callback
CbStep(t) ==
  /\ phase = "run" /\ th[t].cb # "none"
  /\ \/ /\ th[t].h = "lock"
        /\ gsApplication.mutex.owner = NoThread
        /\ gsApplication' = pthread_mutex_lock(gsApplication, t)
        /\ th' = [th EXCEPT ![t].h = "crit"]
     \/ /\ th[t].h = "crit"
        /\ gsApplication' = (IF th[t].cb = "trh_terminate" THEN set_terminate(gsApplication) ELSE gsApplication)
        /\ th' = [th EXCEPT ![t].h = "unlock"]
     \/ /\ th[t].h = "unlock"
        /\ gsApplication' = pthread_mutex_unlock(gsApplication)
        /\ th' = [th EXCEPT ![t].h = "none", ![t].cb = "none"]
  /\ UNCHANGED SigFrame

\* the threads and the callbacks of the dispatch, no signal delivered
CallbackNext == \E t \in Threads : ThreadStep(t) \/ CbCall(t) \/ CbStep(t)

CallbackSpec == SigInit /\ [][CallbackNext]_vars

\* the handler of thread t is inside pthread_mutex_lock, and the mutex is
\* held by the code the handler interrupted
SelfDeadlock(t) == th[t].h = "lock" /\ gsApplication.mutex.owner = t

\* C8 (as claimed): the graceful-stop handler never waits for a mutex held
\* by the thread it interrupted, so no deadlock state is reachable.
C8_HandlerNeverDeadlocks == \A t \in Threads : ~SelfDeadlock(t)

\* C9 (as claimed): once a graceful-stop signal has been delivered, the host
\* loop  while( !trh_is_terminating() ) trh_update();  eventually ends.
C9_TerminationObserved == (\E t \in Threads : th[t].h # "none") ~> (th["main"].pc = "stopped")

\* C30: a thread that is in the wait or the dispatch of trh_update holds the
\* mutex only inside an accessor that one of its callbacks has called: the
\* mutex is free when epoll_wait starts and when a callback starts, so the
\* accessor called by a callback never waits for its own thread, and no
\* other thread is kept waiting across the wait or a callback
C30_MutexNotHeldAcrossWait ==
  \A t \in Threads :
    /\ (th[t].pc = "wait" /\ gsApplication.mutex.owner = t) => th[t].h \in {"crit", "unlock"}
    /\ ~SelfDeadlock(t)

\* C30 witness: a callback of the main thread's dispatch is inside
\* trh_terminate, and the other thread, which called an accessor meanwhile,
\* waits for the mutex
C30_Witness ==
  /\ th["main"].op = "trh_update" /\ th["main"].pc = "wait"
  /\ th["main"].cb = "trh_terminate" /\ th["main"].h = "unlock"
  /\ gsApplication.mutex.owner = "main" /\ gsApplication.terminate
  /\ th["aux"].pc = "lock"

(*************************** field accesses *********************************)
\* trh_update and the accessors one field access at a time: pc "crit" is the
\* first access after pthread_mutex_lock has returned, "crit_sys" and
\* "crit_app" are the second and third assignment of trh_update.

\* an accessor that does not take the mutex
AcCall_nolock(t) ==
  /\ Running(t) /\ th[t].pc = "idle"
  /\ \E op \in NextOp(t, th[t].op) :
       th' = [th EXCEPT ![t].op = op,
                        ![t].pc = IF op \in {"trh_get_app_time", "trh_get_dt"} THEN "crit" ELSE "lock",
                        ![t].lTime = IF op = "trh_update" THEN trh_time(World) ELSE 0,
                        ![t].lResult = 0]
  /\ UNCHANGED <<gsApplication, SigFrame>>

\* the thread enters an operation, up to its pthread_mutex_lock call:
\* trh_update has read the clock into lTime, the accessors have set lResult
AcCall(t) ==
  /\ Running(t) /\ th[t].pc = "idle"
  /\ \E op \in NextOp(t, th[t].op) :
       th' = [th EXCEPT ![t].op = op, ![t].pc = "lock",
                        ![t].lTime = IF op = "trh_update" THEN trh_time(World) ELSE 0,
                        ![t].lResult = 0]
  /\ UNCHANGED <<gsApplication, SigFrame>>

\* one access to a field of gsApplication
AcStep(t) ==
  /\ Running(t)
  /\ \/ /\ th[t].pc = "crit" /\ th[t].op = "trh_update"
        /\ gsApplication' = [gsApplication EXCEPT !.dt = th[t].lTime - gsApplication.time_system]
        /\ th' = [th EXCEPT ![t].pc = "crit_sys"]
        /\ gh' = gh
     \/ /\ th[t].pc = "crit_sys"
        /\ gsApplication' = [gsApplication EXCEPT !.time_system = th[t].lTime]
        /\ th' = [th EXCEPT ![t].pc = "crit_app"]
        /\ gh' = gh
     \/ /\ th[t].pc = "crit_app"
        /\ gsApplication' = [gsApplication EXCEPT !.time_app = @ + gsApplication.dt]
        /\ th' = [th EXCEPT ![t].pc = "unlock"]
        /\ gh' = [gh EXCEPT !.read = th[t].lTime, !.prevread = gh.read, !.sumdt = @ + gsApplication.dt]
     \/ /\ th[t].pc = "crit" /\ th[t].op = "trh_terminate"
        /\ gsApplication' = set_terminate(gsApplication)
        /\ th' = [th EXCEPT ![t].pc = "unlock"]
        /\ gh' = gh
     \/ /\ th[t].pc = "crit" /\ th[t].op = "trh_is_terminating"
        /\ th' = [th EXCEPT ![t].pc = "unlock", ![t].val = gsApplication.terminate]
        /\ UNCHANGED <<gsApplication, gh>>
     \/ /\ th[t].pc = "crit" /\ th[t].op = "trh_get_app_time"
        /\ th' = [th EXCEPT ![t].pc = "unlock", ![t].lResult = gsApplication.time_app]
        /\ UNCHANGED <<gsApplication, gh>>
     \/ /\ th[t].pc = "crit" /\ th[t].op = "trh_get_dt"
        /\ th' = [th EXCEPT ![t].pc = "unlock", ![t].lResult = gsApplication.dt]
        /\ UNCHANGED <<gsApplication, gh>>
  /\ UNCHANGED <<phase, fdt, interest, tfd, cond, ev, now, last, sigdisp>>

AccessNext == ClockStep \/ \E t \in Threads : AcCall(t) \/ ThLock(t) \/ AcStep(t) \/ ThUnlock(t) \/ ThWait(t)

\* trh_init has succeeded, at any clock value
AccessInit ==
  /\ \E t0 \in 0 .. MaxTime : IsWorld(trh_init([StartWorld(TRUE) EXCEPT !.now = t0], 0, FALSE))
  /\ last = [op |-> "trh_init", ret |-> 1, log |-> <<>>, fresh |-> TRUE]
  /\ th = IdleThreads

AccessSpec == AccessInit /\ [][AccessNext]_vars

\* the thread is about to read or write one of the four fields
Accessing(t) == th[t].pc \in {"crit", "crit_sys", "crit_app"}

\* C31: with one thread in trh_update and the others in the accessors and
\* trh_terminate, every access to time_system, time_app, dt and terminate is
\* made by the thread that holds the mutex; whenever the mutex is free the
\* clock fields are those of the completed updates (time_app the sum of
\* their dt values), and every value read is the one a completed update left
C31_FieldsUnderMutex ==
  /\ \A t \in Threads : Accessing(t) => gsApplication.mutex.owner = t
  /\ gsApplication.mutex.owner = NoThread =>
       /\ gsApplication.time_app = gh.sumdt
       /\ gsApplication.time_system = gh.read
       /\ gsApplication.dt = gh.read - gh.prevread
  /\ \A t \in Threads : th[t].pc = "unlock" =>
       /\ th[t].op = "trh_get_app_time" => th[t].lResult = gh.sumdt
       /\ th[t].op = "trh_get_dt" => th[t].lResult = gh.read - gh.prevread
       /\ th[t].op = "trh_is_terminating" => th[t].val = gsApplication.terminate

\* C31 witness: trh_get_dt has read the dt of a completed update (the clock
\* had been set back by one) while the main thread waits for the mutex with
\* the next clock value already read
C31_Witness ==
  /\ th["aux"].op = "trh_get_dt" /\ th["aux"].pc = "unlock" /\ th["aux"].lResult = 0 - 1
  /\ th["main"].op = "trh_update" /\ th["main"].pc = "lock" /\ th["main"].lTime # gsApplication.time_system
  /\ gsApplication.mutex.owner = "aux"


(*************************** trh_terminate twice *****************************)
\* either thread calls trh_terminate or one of the reading accessors, any
\* number of times
TmCall(t) ==
  /\ Running(t) /\ th[t].pc = "idle"
  /\ \E op \in {"trh_terminate", "trh_is_terminating", "trh_get_app_time", "trh_get_dt"} :
       th' = [th EXCEPT ![t].op = op, ![t].pc = "lock"]
  /\ UNCHANGED <<gsApplication, SigFrame>>

TerminateNext == \E t \in Threads : TmCall(t) \/ ThLock(t) \/ ThCrit(t) \/ ThUnlock(t)

TerminateSpec == SigInit /\ [][TerminateNext]_vars

\* thread t makes the assignment of trh_terminate
TerminateStep(t) == th[t].op = "trh_terminate" /\ th[t].pc = "crit" /\ th'[t].pc = "unlock"

BatchInit ==
  /\ \E b \in ReadyBehaviour, rep \in BOOLEAN, x \in {"return", "stop_self"} :
       LET w0 == trh_event_register(trh_init(StartWorld(TRUE), 0, FALSE), DataPtr)
           w1 == [w0 EXCEPT !.ev[DataPtr].on_ready = b]
       IN  IsWorld(trh_timer_init(w1, [FailProfile EXCEPT !.repeat = rep, !.on_expire = x], TRUE, "none"))
  /\ last = [op |-> "trh_timer_init", ret |-> TRH_OK, log |-> <<>>, fresh |-> TRUE]
  /\ th = IdleThreads

BatchNext == DoTimerStart \/ DoTimerStop \/ TimerExpire \/ FdCondition \/ DoUpdate

BatchSpec == BatchInit /\ [][BatchNext]_vars

\* entry i of the log removes a source from the interest list or frees it
Removes(i) == last.log[i].f = "free" \/ (last.log[i].f = "epoll_ctl" /\ "DEL" \in last.log[i].events)

\* C33 (as claimed): in a trh_update, no callback is called on a source that
\* an earlier callback of the same batch has unregistered or released, and
\* the dispatch of a later event of the batch does not read a released source
C33_NoCallbackOnRemovedSource ==
  (last.fresh /\ last.op = "trh_update") =>
     /\ \A i, j \in DOMAIN last.log :
          (i < j /\ Removes(i) /\ last.log[j].p = last.log[i].p)
             => last.log[j].f \notin {"on_ready", "on_error", "on_expire", "local_timer_event", "local_timer_error"}
     /\ "epoll_event" \notin gh.uaf

\* entry i of log l is the timerfd_settime( 0, 0 ) of a trh_timer_stop that
\* succeeded (the timers of BatchSpec have a positive interval, so that no
\* trh_timer_start makes such a call)
StopAt(l, i) == l[i].f = "timerfd_settime" /\ l[i].events = {"zero"} /\ l[i].code = 0

\* C34 (as claimed): a timer that the host has stopped and not started again
\* gets no on_expire in a trh_update, and once trh_timer_stop has returned
\* during a trh_update (called by the timer's own on_expire or by a callback
\* earlier in the batch) the rest of that trh_update neither calls the
\* timer's on_expire nor arms it
C34_StoppedStaysStopped ==
  [][Called("trh_update") =>
       /\ (ev[TimerPtr].alloc = "live" /\ ~ev[TimerPtr].running)
            => \A j \in DOMAIN last'.log : last'.log[j].f # "on_expire"
       /\ \A i, j \in DOMAIN last'.log :
            (i < j /\ StopAt(last'.log, i) /\ last'.log[j].p = last'.log[i].p)
               => /\ last'.log[j].f # "on_expire"
                  /\ ~(last'.log[j].f = "timerfd_settime" /\ last'.log[j].events = {"pos"} /\ last'.log[j].code = 0)]_vars

(*************************** the epoll handle over the lifecycle ************)
\* trh_release at any point of the process: before trh_init, after a failed
\* trh_init, after trh_init and after an earlier trh_release
DoReleaseAny ==
  /\ phase \in {"pre", "initfailed", "run", "released"}
  /\ Commit(trh_release(World), "trh_release")
  /\ UNCHANGED th

LifecycleNext == DoInit \/ DoReleaseAny \/ DoRegister \/ DoUnregister \/ DoUpdate \/ FdCondition

LifecycleSpec == Init /\ [][LifecycleNext]_vars

\* C35 (as claimed): gsApplication.epoll_fd is -1 whenever no epoll
\* descriptor is open, and trh_release and trh_event_unregister change a
\* descriptor or an interest list only when epoll_fd is the open epoll
\* descriptor
C35_HandleNoneWhenClosed ==
  [][/\ EpollFds = {} => gsApplication.epoll_fd = NoFd
     /\ (Called("trh_release") \/ Called("trh_event_unregister")) =>
          \A f \in FD : (fdt'[f] # fdt[f] \/ interest'[f] # interest[f]) => gsApplication.epoll_fd \in EpollFds]_vars

(*************************** the clock set back *****************************)
\* C36: a trh_update after trh_init stores in dt the clock value it reads
\* minus the one read by the call before it, negative when the clock was set
\* back in between, adds that same amount to time_app, and leaves time_app
\* equal to the clock value it read minus the one trh_init read
C36_AppTimeTelescopes ==
  [][(Called("trh_update") /\ phase = "run") =>
       /\ gsApplication'.dt = now - gsApplication.time_system
       /\ gsApplication'.time_app = gsApplication.time_app + gsApplication'.dt
       /\ gsApplication'.time_app = now - gh.base
       /\ now < gsApplication.time_system =>
            (gsApplication'.dt < 0 /\ gsApplication'.time_app < gsApplication.time_app)]_vars

\* C36 witness: trh_init at clock value 1, a trh_update at 3 and one at 2:
\* dt is -1 and time_app has gone from 2 to 1
C36_Witness ==
  /\ Polled /\ last.fresh /\ phase = "run"
  /\ gh.base = 1 /\ gh.prevread = 3 /\ gsApplication.time_system = 2
  /\ gsApplication.dt = 0 - 1 /\ gsApplication.time_app = 1

(*************************** caller-owned sources ***************************)
\* the host's TTrhEvent objects
HostSources == {HostPtrs[i] : i \in 1 .. MaxSources}

\* C37: trh_event_register, trh_event_unregister, trh_update and trh_release
\* leave every TTrhEvent of the host as it is (allocation, fd, callbacks) and
\* leave every descriptor of the host open with its condition; they change
\* the interest list and, for trh_release, the epoll descriptor only
C37_SourcesUntouched ==
  [][(Called("trh_event_register") \/ Called("trh_event_unregister") \/ Called("trh_update") \/ Called("trh_release")) =>
       /\ \A p \in HostSources : ev'[p] = ev[p]
       /\ \A f \in FD : fdt[f] = "file" => (fdt'[f] = "file" /\ cond'[f] = cond[f])
       /\ \A f \in FD : fdt'[f] # fdt[f] => (fdt[f] = "epoll" /\ Called("trh_release"))]_vars

\* C37 witness: trh_release has returned while the host's first source was
\* still registered; the source and its descriptor are as they were and the
\* association is gone with the epoll descriptor
C37_Witness ==
  /\ last.fresh /\ last.op = "trh_release" /\ phase = "released"
  /\ gh.hist = "registered"
  /\ ev[DataPtr] = HostEvent(TRUE) /\ fdt[HostFd] = "file" /\ cond[HostFd] = {"IN"}
  /\ interest[HostFd] = NULL /\ EpollFds = {}

(*************************** trh_version *************************************)
\* project( trihlav VERSION "25.07.09" ), cmake_minimum_required 3.10: the
\* components are passed to the compiler without their leading zeros
LIB_TRH_VERSION_MAJOR == 25
LIB_TRH_VERSION_MINOR == 7
LIB_TRH_VERSION_PATCH == 9

RECURSIVE BitOr(_, _)
\* a | b
BitOr(a, b) ==
  IF a = 0 THEN b
  ELSE IF b = 0 THEN a
  ELSE (IF a % 2 = 1 \/ b % 2 = 1 THEN 1 ELSE 0) + 2 * BitOr(a \div 2, b \div 2)

\* a << n for an int a; the results here stay far below 2^31
ShiftLeft(a, n) == a * 2^n

\* v: the TAppVersion the caller passes, v.null for a null pointer; the
\* result is the struct after the call. major, minor and patch are uint8_t,
\* ver is uint32_t.
trh_version(w, v) ==
  IF v.null THEN (IF w.ndebug THEN Ret(w, v) ELSE Ret([w EXCEPT !.phase = "crashed"], v))
  ELSE Ret(w, [null  |-> FALSE,
               major |-> IF v.major # 0 THEN LIB_TRH_VERSION_MAJOR % 256 ELSE v.major,
               minor |-> IF v.minor # 0 THEN LIB_TRH_VERSION_MINOR % 256 ELSE v.minor,
               patch |-> IF v.patch # 0 THEN LIB_TRH_VERSION_PATCH % 256 ELSE v.patch,
               ver   |-> IF v.ver # 0
                         THEN BitOr(BitOr(ShiftLeft(LIB_TRH_VERSION_MAJOR, 16), ShiftLeft(LIB_TRH_VERSION_MINOR, 8)), LIB_TRH_VERSION_PATCH)
                         ELSE v.ver])

\* the structs the caller passes: zero-filled, already holding a version,
\* holding other values, and the null pointer
VersionInputs ==
  [null : {FALSE}, major : {0, 1, 25, 255}, minor : {0, 7, 255}, patch : {0, 9, 255}, ver : {0, 1, 2147483647}]
  \cup {[null |-> TRUE, major |-> 0, minor |-> 0, patch |-> 0, ver |-> 0]}

DoVersion ==
  /\ Alive
  /\ \E v \in VersionInputs, nd \in BOOLEAN :
       /\ nd => v.null
       /\ Commit(trh_version([World EXCEPT !.ndebug = nd, !.log = <<Entry("arg", v, 0, {})>>], v), "trh_version")
  /\ UNCHANGED th

VersionSpec == Init /\ [][DoVersion]_vars

\* C38 (as claimed): after trh_version( v ) with v not null, whatever v held
\* before, v.major, v.minor and v.patch are the version numbers of the build
\* and v.ver is (major << 16) | (minor << 8) | patch
C38_VersionReported ==
  (last.fresh /\ last.op = "trh_version" /\ ~last.log[1].p.null) =>
     /\ last.ret.major = LIB_TRH_VERSION_MAJOR
     /\ last.ret.minor = LIB_TRH_VERSION_MINOR
     /\ last.ret.patch = LIB_TRH_VERSION_PATCH
     /\ last.ret.ver = LIB_TRH_VERSION_MAJOR * 65536 + LIB_TRH_VERSION_MINOR * 256 + LIB_TRH_VERSION_PATCH

(*************************** the path cache **********************************)
\* process start; what follows gsPaths in memory is zero or is not
PathInit ==
  /\ \E b \in {NULL, "other"} : IsWorld([StartWorld(TRUE) EXCEPT !.gh.gsPaths.beyond = b])
  /\ last = [op |-> "none", ret |-> VOID, log |-> <<>>, fresh |-> FALSE]
  /\ th = IdleThreads

\* the host calls trh_std_init while no path is cached
DoStdInit ==
  /\ gh.gsPaths.heap = {}
  /\ Commit(trh_std_init(World), "trh_std_init")
  /\ UNCHANGED th

\* iType: the six path types and a value that is none of them
DoGetPath ==
  /\ \E iType \in TRH_HOME .. TRH_ASSETS + 1, env \in [home : BOOLEAN, var : BOOLEAN], out \in BOOLEAN :
       Commit(trh_get_path([World EXCEPT !.log = <<Entry("arg", NULL, iType, IF out THEN {} ELSE {"null_out"})>>], iType, env, out), "trh_get_path")
  /\ UNCHANGED th

DoStdRelease ==
  /\ Commit(trh_std_release(World), "trh_std_release")
  /\ UNCHANGED th

PathSpec == PathInit /\ [][DoStdInit \/ DoGetPath \/ DoStdRelease]_vars

\* the blocks the cache holds
Cached(g) == ({g.slot[i] : i \in DOMAIN g.slot} \cup {g.beyond}) \ {NULL, "other"}

\* C39 (as claimed): every access trh_get_path makes to gsPaths uses an index
\* inside the array; a request for one of the six types made when a path of
\* that type has been stored returns that stored pointer and allocates
\* nothing; trh_std_release frees every cached path, leaves every slot null
\* and no block allocated
C39_PathCache ==
  [][/\ Called("trh_get_path") =>
          /\ \A k \in DOMAIN last'.log :
               last'.log[k].f = "gsPaths" => last'.log[k].code \in DOMAIN gh.gsPaths.slot
          /\ \A i \in TRH_HOME .. TRH_ASSETS :
               (last'.log[1].code = i /\ last'.log[1].events = {} /\ PathBlocks[i] \in gh.gsPaths.heap)
                  => (last'.ret = PathBlocks[i] /\ gh'.gsPaths = gh.gsPaths)
     /\ Called("trh_std_release") =>
          /\ gh'.gsPaths.heap = {}
          /\ Cached(gh'.gsPaths) = {}]_vars

====
